---- MODULE Spec2Model ----
(***************************************************************************)
(* Session and request protocol of connect_box.ConnectBox                  *)
(* (src/connect_box/__init__.py) with the schedule parsers of              *)
(* src/connect_box/parsers.py.                                             *)
(*                                                                         *)
(* One caller awaits the public coroutines one at a time.  A coroutine     *)
(* runs without interruption between two awaits on the HTTP session, so    *)
(* every action below is one such stretch: the call of a public method up  *)
(* to its first request, or the arrival of a response up to the next       *)
(* request or to the return/raise of the public method.                    *)
(***************************************************************************)
EXTENDS Integers, Sequences, FiniteSets, TLC

VARIABLES
    token,              \* ConnectBox.token: a cookie value or None
    ipv6_filters,       \* ConnectBox.ipv6_filters: sequence of [idd, enabled]
    ipv6_filters_time,  \* ConnectBox._ipv6_filters_time: <<>> for None, else <<FiltersTimeMode>>
    pc,                 \* the await the caller's coroutine is suspended at
    op,                 \* the public method in progress, or the last one called
    arg,                \* idd argument of async_toggle_ipv6_filter (0 otherwise)
    new_value,          \* local new_value of async_toggle_ipv6_filter
    reqs,               \* HTTP requests sent since the public method was called
    lastCookie,         \* sessionToken cookies of the last response received
                        \* ({} when it had none, or before the first response)
    tokenAtCall,        \* value of token when the public method was called
    result,             \* "pending", "ok" or the class of the exception raised
    ret,                \* value returned by the last public method
    cache,              \* the other cached fields of ConnectBox, by attribute name
    given,              \* argument of a function of parsers.py or data.py under study
    applied,            \* <<>>, or <<its result>> once it was applied
    cacheAtCall,        \* value of cache when the public method was called
    answer,             \* <<r>>: the response r to the getter request of
                        \* the call, <<>> before it
    tasks,              \* the coroutines of two callers that share the client
    issued,             \* sessionToken cookies of the response the device sent last
    host,               \* ConnectBox.host
    password,           \* ConnectBox.password
    headers             \* ConnectBox.headers

vars == <<token, ipv6_filters, ipv6_filters_time, pc, op, arg, new_value,
          reqs, lastCookie, tokenAtCall, result, ret, cache, given, applied,
          cacheAtCall, answer, tasks, issued, host, password, headers>>

\* what the session leaves alone: cacheAtCall and answer are recorded by
\* SpecCache, given and applied by the specifications of the pure functions,
\* tasks and issued by SpecConcurrent; host, password and headers are
\* assigned by __init__ only
aside ==
    <<cacheAtCall, answer, given, applied, tasks, issued, host, password,
      headers>>

(***************************************************************************)
(* Bounds of the model.                                                    *)
(***************************************************************************)
MaxToken == 1       \* the device issues the cookie values "", "1".."MaxToken"
MaxFilters == 1     \* filter instances in one response to SpecCache
MaxIdd == 1         \* the filter ids of SpecCache are 1..MaxIdd

(***************************************************************************)
(* Function codes.                                                         *)
(***************************************************************************)
CMD_GLOBALSETTINGS == 1
CMD_CMSYSTEMINFO == 2
CMD_REBOOT == 8
CMD_DOWNSTREAM == 10
CMD_UPSTREAM == 11
CMD_EVENTLOG == 13
CMD_LOGIN == 15
CMD_LOGOUT == 16
CMD_LANSTATUS == 100
CMD_WANSTATUS == 107
CMD_GET_IPV6_FILTER_RULE == 111
CMD_SET_IPV6_FILTER_RULE == 112
CMD_DEVICES == 123
CMD_TEMPERATURE == 136
CMD_CMSTATUS == 144

(***************************************************************************)
(* Python values.  None is kept apart from every cookie value; str(None)   *)
(* is "None", which is what an f-string puts into a request body.          *)
(***************************************************************************)
None == "None"

\* Cookie values a response can carry: the empty value and the device's
\* numeric tokens.
Tokens == {""} \cup {ToString(i) : i \in 1..MaxToken}

\* the password __init__ is given
Password == "12345"

\* ConnectBox.headers as __init__ builds them for host h
Headers(h) ==
    [X_Requested_With |-> "XMLHttpRequest",
     Referer |-> "http://" \o h \o "/index.html",
     User_Agent |-> "Mozilla/5.0 (Windows NT 10.0; WOW64) "
                    \o "AppleWebKit/537.36 (KHTML, like Gecko) "
                    \o "Chrome/47.0.2526.106 Safari/537.36"]

\* str(v) of a token, as an f-string renders it
Str(v) == IF v = None THEN "None" ELSE v

\* bool(v) of a token: None and the empty string are falsy
Truthy(v) == v # None /\ v # ""

RECURSIVE Join(_, _)
\* sep.join(strs)
Join(strs, sep) ==
    IF Len(strs) = 0 THEN ""
    ELSE IF Len(strs) = 1 THEN strs[1]
    ELSE strs[1] \o sep \o Join(Tail(strs), sep)

(***************************************************************************)
(* parsers.py                                                              *)
(***************************************************************************)
\* The text of <GeneralTime><time> is modelled split at "-" and ":" as a
\* sequence of <<h, m>>; the section is <<>> when the element is missing.
\* variant: the hour is not converted to minutes
ParseGeneralTimeHourAsMinute(general) ==
    IF general # <<>>
    THEN Join([i \in 1..Len(general[1]) |->
                 ToString(general[1][i][1] + general[1][i][2])], ",")
    ELSE None

_parse_general_time(general) ==
    IF general # <<>>
    THEN Join([i \in 1..Len(general[1]) |->
                 ToString(general[1][i][1] * 60 + general[1][i][2])], ",")
    ELSE None

\* variant: the slice ends one element earlier
SliceAssignShort(lst, s, e) ==
    LET n  == Len(lst)
        cl(i) == IF i < 0 THEN (IF i + n < 0 THEN 0 ELSE i + n)
                 ELSE IF i > n THEN n ELSE i
        lo == cl(s)
        hi == IF cl(e - 1) < lo THEN lo ELSE cl(e - 1)
        k  == IF e - 1 - s > 0 THEN e - 1 - s ELSE 0
    IN  SubSeq(lst, 1, lo) \o [i \in 1..k |-> 1] \o SubSeq(lst, hi + 1, n)

\* lst[s:e] = [1] * (e - s) on a Python list lst (a sequence indexed from 1)
SliceAssignOnes(lst, s, e) ==
    LET n  == Len(lst)
        cl(i) == IF i < 0 THEN (IF i + n < 0 THEN 0 ELSE i + n)
                 ELSE IF i > n THEN n ELSE i
        lo == cl(s)
        hi == IF cl(e) < lo THEN lo ELSE cl(e)
        k  == IF e - s > 0 THEN e - s ELSE 0
    IN  SubSeq(lst, 1, lo) \o [i \in 1..k |-> 1] \o SubSeq(lst, hi + 1, n)

RECURSIVE DayDec(_, _)
\* daydec = (daydec << 1) | bit over the bits of one day
DayDec(daybin, daydec) ==
    IF daybin = <<>> THEN daydec
    ELSE DayDec(Tail(daybin), daydec * 2 + Head(daybin))

RECURSIVE DailyMask(_, _)
\* the loop over DailyTime/time_instance; an entry is [daily, s, e].  A day
\* index of -7..6 addresses a row of mask (negative ones from the end);
\* mask[day] with any other index raises IndexError and ends the loop.
\* The result is [exc, mask]: the exception raised ("none": the loop ran
\* to its end) and the mask at that point.
DailyMask(entries, mask) ==
    IF entries = <<>> THEN [exc |-> "none", mask |-> mask]
    ELSE LET d   == Head(entries).daily - 1
             row == IF d < 0 THEN d + 7 + 1 ELSE d + 1
         IN  IF d \notin -7..6 THEN [exc |-> "IndexError", mask |-> mask]
             ELSE DailyMask(Tail(entries),
                     [mask EXCEPT ![row] =
                         SliceAssignOnes(@, Head(entries).s,
                                         Head(entries).e + 1)])

\* the result is [exc, value]: the exception the call raises ("none": it
\* returns) and the value it returns
_parse_daily_time(daily) ==
    LET loop == DailyMask(daily, [d \in 1..7 |-> [h \in 1..24 |-> 0]])
        output == [d \in 1..7 |-> ToString(DayDec(loop.mask[d], 0))]
    IN  IF loop.exc # "none" THEN [exc |-> loop.exc, value |-> None]
        ELSE IF Len(output) # 0
        THEN [exc |-> "none", value |-> Join(output, ",")]
        ELSE [exc |-> "none", value |-> None]

(***************************************************************************)
(* HTTP.  A request is its method, its path and the fields of its body in  *)
(* order, every value as the f-string renders it.                          *)
(***************************************************************************)
LoginPageRequest ==
    [method |-> "GET", url |-> "/common_page/login.html", data |-> <<>>]

LoginRequest(tok) ==
    [method |-> "POST", url |-> "/xml/setter.xml",
     data |-> << <<"token", Str(tok)>>, <<"fun", ToString(CMD_LOGIN)>>,
                 <<"Username", "NULL">>, <<"Password", password>> >>]

GetRequest(tok, function) ==
    [method |-> "POST", url |-> "/xml/getter.xml",
     data |-> << <<"token", Str(tok)>>, <<"fun", ToString(function)>> >>]

\* variant: the extra parameters are put before the function code
SetRequestParamsFirst(tok, function, params) ==
    [method |-> "POST", url |-> "/xml/setter.xml",
     data |-> << <<"token", Str(tok)>> >> \o params
              \o << <<"fun", ToString(function)>> >>]

\* params is the sequence of the (key, value) items of the dict, in
\* insertion order
SetRequest(tok, function, params) ==
    [method |-> "POST", url |-> "/xml/setter.xml",
     data |-> << <<"token", Str(tok)>>, <<"fun", ToString(function)>> >>
              \o params]

(***************************************************************************)
(* The public coroutines.                                                  *)
(***************************************************************************)
GetterCmd ==
    [async_get_devices |-> CMD_DEVICES,
     async_get_downstream |-> CMD_DOWNSTREAM,
     async_get_upstream |-> CMD_UPSTREAM,
     async_get_ipv6_filtering |-> CMD_GET_IPV6_FILTER_RULE,
     async_get_lanstatus |-> CMD_LANSTATUS,
     async_get_wanstatus |-> CMD_WANSTATUS,
     async_get_cm_system_info |-> CMD_CMSYSTEMINFO,
     async_get_cmstatus_and_service_flows |-> CMD_CMSTATUS,
     async_get_temperature |-> CMD_TEMPERATURE,
     async_get_eventlog |-> CMD_EVENTLOG,
     async_get_global_settings |-> CMD_GLOBALSETTINGS,
     async_toggle_ipv6_filter |-> CMD_GET_IPV6_FILTER_RULE]

\* getters that start with "if self.token is None: async_initialize_token()"
LoginGetters ==
    {"async_get_devices", "async_get_downstream", "async_get_upstream",
     "async_get_ipv6_filtering", "async_get_lanstatus", "async_get_wanstatus",
     "async_get_cm_system_info", "async_get_cmstatus_and_service_flows",
     "async_get_temperature", "async_get_eventlog"}

\* getters whose decoder converts a field with int() or float()
NumericGetters ==
    {"async_get_downstream", "async_get_upstream", "async_get_ipv6_filtering",
     "async_get_cmstatus_and_service_flows", "async_get_temperature",
     "async_get_eventlog", "async_toggle_ipv6_filter"}

\* getters whose decoder gives a field to convert_ip: the addresses of the
\* LAN and WAN status and dstAddr of a filter instance (srcAddr is declared
\* a second time without the converter, dstAddr a second time with it)
AddressGetters ==
    {"async_get_lanstatus", "async_get_wanstatus", "async_get_ipv6_filtering",
     "async_toggle_ipv6_filter"}

\* getters that fill ipv6_filters
FilterGetters == {"async_get_ipv6_filtering", "async_toggle_ipv6_filter"}

\* public methods that start with "if self.token is None:
\* async_initialize_token()"
TokenRequiringOps ==
    LoginGetters \cup {"async_toggle_ipv6_filter", "async_reboot_device"}

\* variant: every public method logs in with the password
PhaseOneOnlyNobody == {}

\* the public method that calls only _async_initialize_valid_token when no
\* token is held
PhaseOneOnly == {"async_get_global_settings"}

(***************************************************************************)
(* Responses of the device.                                                *)
(*   fail     "none", or where the transport fails: "send" (the request    *)
(*            raises) or "read" (response.read()/text() raises)            *)
(*   exc      the exception of that failure                                *)
(*   status   HTTP status                                                  *)
(*   cookies  the sessionToken cookies of the response ({} when it has no  *)
(*            such cookie)                                                 *)
(*   body     what the XML body is to the decoder that reads it            *)
(***************************************************************************)
TransportErrors == {"TimeoutError", "ClientError"}

\* kind "missing_tag": a tag the decoder looks up is not there;
\* "empty_number": an element given to int(), float() or strptime has no
\* text; "empty_address": an element given to convert_ip has no text;
\* "non_numeric": an element given to a converter has text the converter
\* rejects; "empty_text": the IPv4Addr of a device, whose text is split
\* with .partition before it is converted, has no text.  On a faulty
\* body, instances are the <instance> elements before the fault.
\* A body also has
\*   head     the value of the record at the root of the document (0 when
\*            the model does not follow it)
\*   records  the repeated elements in document order: values of channels
\*            and log events (the evEpoch of an event), [id, direction] of
\*            service flows, the texts of the eight tags of the devices
\*   at       on a faulty body, the index of the record the fault is in
\*            (0: before the first record)
BodyKinds(o) ==
    IF o = "async_get_devices"
    THEN {"ok", "malformed", "missing_tag", "empty_text", "empty_number",
          "non_numeric"}
    ELSE {"ok", "malformed", "missing_tag"}
         \cup (IF o \in NumericGetters THEN {"empty_number"} ELSE {})
         \cup (IF o \in AddressGetters THEN {"empty_address"} ELSE {})
         \cup (IF o \in NumericGetters \cup AddressGetters
               THEN {"non_numeric"} ELSE {})

FilterInstances == [idd : 1..MaxIdd, enabled : {0, 1}]

RECURSIVE SeqsUpTo(_, _)
SeqsUpTo(S, n) ==
    IF n = 0 THEN {<<>>}
    ELSE LET shorter == SeqsUpTo(S, n - 1)
         IN  shorter \cup {Append(q, e) : q \in shorter, e \in S}

\* the schedule part of a filter response: time_mode, the GeneralTime
\* section and the DailyTime entries
TimeSections ==
    {[time_mode |-> 0, general |-> <<>>, daily |-> <<>>],
     [time_mode |-> 1, general |-> << << <<8, 15>>, <<17, 45>> >> >>,
      daily |-> <<>>],
     [time_mode |-> 2, general |-> <<>>,
      daily |-> << [daily |-> 1, s |-> 0, e |-> 23] >>],
     [time_mode |-> 2, general |-> <<>>,
      daily |-> << [daily |-> 8, s |-> 0, e |-> 0] >>]}

NoSchedule == [time_mode |-> 0, general |-> <<>>, daily |-> <<>>]

\* the tags async_get_devices collects
DeviceTags ==
    {"MACAddr", "hostname", "IPv4Addr", "interface", "speed", "interfaceid",
     "method", "leaseTime"}

\* the texts of the eight tags of n devices in a document whose values
\* are marked v: an IPv4Addr text is split at its "/", the address at its
\* dots, a leaseTime at its colons after "00"
\* the text of the i-th element of a tag
TagText(t, v, i) ==
    IF t = "IPv4Addr" THEN << <<10, 0, v, i>>, "24" >>
    ELSE IF t = "leaseTime" THEN <<0, v, i>>
    ELSE <<t, v, i>>

\* the lists of a document with lens[t] elements of tag t
DeviceTextsOf(lens, v) ==
    [t \in DeviceTags |-> [i \in 1..lens[t] |-> TagText(t, v, i)]]

DeviceTexts(n, v) == DeviceTextsOf([t \in DeviceTags |-> n], v)

\* the kinds of a device document whose fault is in a device
DeviceFaults == {"empty_text", "empty_number", "non_numeric"}

\* the documents of Spec: a filter document has no instance or the enabled
\* filter 1, and no schedule or one whose DailyTime entry names a day that
\* is not of the week
Bodies(o) ==
    IF o \in FilterGetters
    THEN [kind : BodyKinds(o),
          instances : {<<>>, <<[idd |-> 1, enabled |-> 1]>>},
          time : {NoSchedule,
                  [time_mode |-> 2, general |-> <<>>,
                   daily |-> << [daily |-> 8, s |-> 0, e |-> 0] >>]},
          head : {0}, records : {<<>>}, at : {0}]
    ELSE IF o = "async_get_devices"
    THEN [kind : BodyKinds(o) \ DeviceFaults, instances : {<<>>},
          time : {NoSchedule}, head : {0}, records : {DeviceTexts(0, 1)},
          at : {0}]
         \cup
         [kind : DeviceFaults, instances : {<<>>}, time : {NoSchedule},
          head : {0}, records : {DeviceTexts(1, 1)}, at : {1}]
    ELSE IF o = "async_get_cmstatus_and_service_flows"
    THEN [kind : {"ok", "malformed"}, instances : {<<>>}, time : {NoSchedule},
          head : {0}, records : {<<>>}, at : {0}]
         \cup
         [kind : BodyKinds(o) \ {"ok", "malformed"}, instances : {<<>>},
          time : {NoSchedule}, head : {0},
          records : {<<[id |-> 1, direction |-> 1]>>}, at : {0, 1}]
    ELSE [kind : BodyKinds(o), instances : {<<>>}, time : {NoSchedule},
          head : {0}, records : {<<>>}, at : {0}]

OkBody == [kind |-> "ok", instances |-> <<>>, time |-> NoSchedule,
           head |-> 0, records |-> <<>>, at |-> 0]

CookieJars == {{}} \cup {{t} : t \in Tokens}

Responses(bodies) ==
    [fail : {"send"}, exc : TransportErrors, status : {0}, cookies : {{}},
     body : {OkBody}]
    \cup
    [fail : {"read"}, exc : TransportErrors, status : {200, 500},
     cookies : CookieJars, body : {OkBody}]
    \cup
    [fail : {"none"}, exc : {"none"}, status : {500}, cookies : CookieJars,
     body : {OkBody}]
    \cup
    [fail : {"none"}, exc : {"none"}, status : {200}, cookies : CookieJars,
     body : bodies]

\* the responses with no cookie or the cookie "1", a failure being a timeout
SmallJars == {{}, {ToString(1)}}

SmallResponses(bodies) ==
    [fail : {"send"}, exc : {"TimeoutError"}, status : {0}, cookies : {{}},
     body : {OkBody}]
    \cup
    [fail : {"read"}, exc : {"TimeoutError"}, status : {200, 500},
     cookies : SmallJars, body : {OkBody}]
    \cup
    [fail : {"none"}, exc : {"none"}, status : {500}, cookies : SmallJars,
     body : {OkBody}]
    \cup
    [fail : {"none"}, exc : {"none"}, status : {200}, cookies : SmallJars,
     body : bodies]

\* the answers of the same device to a getter or setter request: no cookie
\* or the cookie "2", which is not the token a login leaves
SmallOwnJars == {{}, {ToString(2)}}

SmallOwnResponses(bodies) ==
    [fail : {"send"}, exc : {"TimeoutError"}, status : {0}, cookies : {{}},
     body : {OkBody}]
    \cup
    [fail : {"read"}, exc : {"TimeoutError"}, status : {200, 500},
     cookies : SmallOwnJars, body : {OkBody}]
    \cup
    [fail : {"none"}, exc : {"none"}, status : {500}, cookies : SmallOwnJars,
     body : {OkBody}]
    \cup
    [fail : {"none"}, exc : {"none"}, status : {200}, cookies : SmallOwnJars,
     body : bodies]

\* response.cookies["sessionToken"].value
CookieValue(r) == CHOOSE t \in r.cookies : TRUE

(***************************************************************************)
(* The four coroutines that talk to the device, as what they make of a     *)
(* response: the token they leave and the exception they raise ("none"     *)
(* when they return).                                                      *)
(***************************************************************************)
_async_initialize_valid_token(tok, r) ==
    IF r.fail # "none"
    THEN [token |-> tok, exc |-> "ConnectBoxConnectionError"]
    ELSE IF r.cookies = {}
    THEN [token |-> tok, exc |-> "KeyError"]
    ELSE [token |-> CookieValue(r), exc |-> "none"]

\* variant: a successful login keeps the token of phase 1
LoginKeepsPhaseOneToken(tok, r) ==
    IF r.fail # "none"
    THEN [token |-> tok, exc |-> "ConnectBoxConnectionError"]
    ELSE IF r.status # 200
    THEN [token |-> None, exc |-> "ConnectBoxLoginError"]
    ELSE IF r.cookies = {}
    THEN [token |-> tok, exc |-> "KeyError"]
    ELSE [token |-> tok, exc |-> "none"]

\* variant: a refused login raises the generic error
LoginStatusAsGenericError(tok, r) ==
    IF r.fail # "none"
    THEN [token |-> tok, exc |-> "ConnectBoxConnectionError"]
    ELSE IF r.status # 200
    THEN [token |-> None, exc |-> "ConnectBoxError"]
    ELSE IF r.cookies = {}
    THEN [token |-> tok, exc |-> "KeyError"]
    ELSE [token |-> CookieValue(r), exc |-> "none"]

_async_do_login_with_password(tok, r) ==
    IF r.fail # "none"
    THEN [token |-> tok, exc |-> "ConnectBoxConnectionError"]
    ELSE IF r.status # 200
    THEN [token |-> None, exc |-> "ConnectBoxLoginError"]
    ELSE IF r.cookies = {}
    THEN [token |-> tok, exc |-> "KeyError"]
    ELSE [token |-> CookieValue(r), exc |-> "none"]

\* variant: the cookie of the response is not stored
GetKeepsSentToken(tok, r) ==
    IF r.fail = "send"
    THEN [token |-> None, exc |-> "ConnectBoxConnectionError"]
    ELSE IF r.status # 200
    THEN [token |-> None, exc |-> "ConnectBoxError"]
    ELSE IF r.cookies = {}
    THEN [token |-> tok, exc |-> "KeyError"]
    ELSE IF r.fail = "read"
    THEN [token |-> None, exc |-> "ConnectBoxConnectionError"]
    ELSE [token |-> tok, exc |-> "none"]

\* variant: a failure to read the body leaves the cookie just stored
GetReadFailureKeepsCookie(tok, r) ==
    IF r.fail = "send"
    THEN [token |-> None, exc |-> "ConnectBoxConnectionError"]
    ELSE IF r.status # 200
    THEN [token |-> None, exc |-> "ConnectBoxError"]
    ELSE IF r.cookies = {}
    THEN [token |-> tok, exc |-> "KeyError"]
    ELSE IF r.fail = "read"
    THEN [token |-> CookieValue(r), exc |-> "ConnectBoxConnectionError"]
    ELSE [token |-> CookieValue(r), exc |-> "none"]

_async_ws_get_function(tok, r) ==
    IF r.fail = "send"
    THEN [token |-> None, exc |-> "ConnectBoxConnectionError"]
    ELSE IF r.status # 200
    THEN [token |-> None, exc |-> "ConnectBoxError"]
    ELSE IF r.cookies = {}
    THEN [token |-> tok, exc |-> "KeyError"]
    ELSE IF r.fail = "read"
    THEN [token |-> None, exc |-> "ConnectBoxConnectionError"]
    ELSE [token |-> CookieValue(r), exc |-> "none"]

\* variant: the status error is raised where the except clause turns it
\* into a connection error
SetStatusAsConnectionError(tok, r) ==
    IF r.fail = "send"
    THEN [token |-> None, exc |-> "ConnectBoxConnectionError"]
    ELSE IF r.status # 200
    THEN [token |-> None, exc |-> "ConnectBoxConnectionError"]
    ELSE IF r.cookies = {}
    THEN [token |-> tok, exc |-> "KeyError"]
    ELSE IF r.fail = "read"
    THEN [token |-> None, exc |-> "ConnectBoxConnectionError"]
    ELSE [token |-> CookieValue(r), exc |-> "none"]

_async_ws_set_function(tok, r) ==
    IF r.fail = "send"
    THEN [token |-> None, exc |-> "ConnectBoxConnectionError"]
    ELSE IF r.status # 200
    THEN [token |-> None, exc |-> "ConnectBoxError"]
    ELSE IF r.cookies = {}
    THEN [token |-> tok, exc |-> "KeyError"]
    ELSE IF r.fail = "read"
    THEN [token |-> None, exc |-> "ConnectBoxConnectionError"]
    ELSE [token |-> CookieValue(r), exc |-> "none"]

(***************************************************************************)
(* The decoders.                                                           *)
\* the <serviceflow> elements of a cmstatus document that precede its
\* fault: all of them when no element is faulty, none when the fault is
\* in the fields of CmStatus (at = 0), which are read before the loop
FlowsBefore(body) ==
    IF body.kind = "ok" THEN body.records
    ELSE IF body.kind = "malformed" \/ body.at = 0 THEN <<>>
    ELSE SubSeq(body.records, 1, body.at - 1)

(***************************************************************************)
\* the exception the try block of the decoder of o raises on a body
\* ("none" when it completes): fromstring raises ParseError, .text of a
\* find() that found nothing AttributeError, int(None) TypeError and
\* int("x") ValueError; convert_ip raises ValueError also on None (so an
\* empty <dst_addr/> of a filter instance is not caught);
\* async_get_devices collects its tags with iter() and zip(), so a missing
\* tag only shortens its lists, and calls .partition on the IPv4Addr text;
\* async_get_cmstatus_and_service_flows raises ParseError itself on a
\* service flow whose direction is neither 1 nor 2, which it reaches when
\* no flow before it is faulty; the filter getter
\* calls _parse_daily_time for an argument of FiltersTimeMode, which
\* raises IndexError on a day outside the week
DecodeRaises(o, body) ==
    IF body.kind = "malformed" THEN "ParseError"
    ELSE IF /\ o = "async_get_cmstatus_and_service_flows"
            /\ \E i \in DOMAIN FlowsBefore(body) :
                  FlowsBefore(body)[i].direction \notin {1, 2}
    THEN "ParseError"
    ELSE
    CASE body.kind = "ok" ->
            IF o \in FilterGetters
            THEN _parse_daily_time(body.time.daily).exc
            ELSE "none"
      [] body.kind = "missing_tag" ->
            IF o = "async_get_devices" THEN "none" ELSE "AttributeError"
      [] body.kind = "empty_text" -> "AttributeError"
      [] body.kind = "empty_number" -> "TypeError"
      [] body.kind = "empty_address" -> "ValueError"
      [] body.kind = "non_numeric" -> "ValueError"

\* except (element_tree.ParseError, TypeError)
DecodeCaught == {"ParseError", "TypeError"}

\* the decoder of o on the body of a response, entered with token tok
Decode(o, tok, body) ==
    IF DecodeRaises(o, body) \in DecodeCaught
    THEN [token |-> None, exc |-> "ConnectBoxNoDataAvailable"]
    ELSE [token |-> tok, exc |-> DecodeRaises(o, body)]

\* FiltersTimeMode(...) of lines 235-239 once its three arguments are
\* evaluated (an argument that raises ends the try block before it)
FiltersTimeMode(time) ==
    [TMode |-> time.time_mode,
     XmlGeneralTime |-> _parse_general_time(time.general),
     XmlDailyTime |-> _parse_daily_time(time.daily).value]

\* ipv6_filters and _ipv6_filters_time as async_get_ipv6_filtering leaves
\* them after reading a body
DecodedFilters(body) ==
    IF body.kind = "malformed" THEN <<>> ELSE body.instances

DecodedTime(body) ==
    IF body.kind = "ok" /\ _parse_daily_time(body.time.daily).exc = "none"
    THEN <<FiltersTimeMode(body.time)>> ELSE <<>>

(***************************************************************************)
(* async_toggle_ipv6_filter                                                *)
(***************************************************************************)
\* FilterStatesList of _async_get_ipv6_filter_states
FilterStates(filters) ==
    [i \in 1..Len(filters) |->
        [idd |-> filters[i].idd, enabled |-> filters[i].enabled]]

\* variant: the last entry with the id is taken
LastMatch(states, idd) ==
    IF \E i \in 1..Len(states) : states[i].idd = idd
    THEN CHOOSE i \in 1..Len(states) :
            /\ states[i].idd = idd
            /\ \A j \in (i + 1)..Len(states) : states[j].idd # idd
    ELSE 0

\* index of the first entry with the id, 0 when there is none
FirstMatch(states, idd) ==
    IF \E i \in 1..Len(states) : states[i].idd = idd
    THEN CHOOSE i \in 1..Len(states) :
            /\ states[i].idd = idd
            /\ \A j \in 1..(i - 1) : states[j].idd # idd
    ELSE 0

\* int(not bool(enabled))
Flip(enabled) == IF enabled # 0 THEN 0 ELSE 1

\* the states after the loop of async_toggle_ipv6_filter
Toggled(states, idd) ==
    IF FirstMatch(states, idd) = 0 THEN states
    ELSE [states EXCEPT ![FirstMatch(states, idd)].enabled = Flip(@)]

\* variant: new_value starts as False instead of None
NewValueFromFalse(states, idd) ==
    IF FirstMatch(states, idd) = 0 THEN "False"
    ELSE IF Toggled(states, idd)[FirstMatch(states, idd)].enabled # 0
         THEN "True" ELSE "False"

\* new_value after the loop
NewValue(states, idd) ==
    IF FirstMatch(states, idd) = 0 THEN None
    ELSE IF Toggled(states, idd)[FirstMatch(states, idd)].enabled # 0
         THEN "True" ELSE "False"

\* the items of params in _async_update_ipv6_filter_states
UpdateParams(states, ftm) ==
    << <<"act", "1">>, <<"dir", "0">>,
       <<"enabled", Join([i \in 1..Len(states) |-> ToString(states[i].enabled)], "*")>>,
       <<"allow_traffic", "">>, <<"protocol", "">>, <<"src_addr", "">>,
       <<"src_prefix", "">>, <<"dst_addr", "">>, <<"dst_prefix", "">>,
       <<"ssport", "">>, <<"seport", "">>, <<"dsport", "">>, <<"deport", "">>,
       <<"del", Join([i \in 1..Len(states) |-> "0"], "*")>>,
       <<"idd", Join([i \in 1..Len(states) |-> ToString(states[i].idd)], "*")>>,
       <<"sIpRange", "">>, <<"dsIpRange", "">>, <<"PortRange", "">>,
       <<"TMode", ToString(ftm.TMode)>>,
       <<"TRule", IF ftm.TMode = 1 THEN Str(ftm.XmlGeneralTime)
                  ELSE IF ftm.TMode = 2 THEN Str(ftm.XmlDailyTime)
                  ELSE "0">> >>

(***************************************************************************)
(* The cached fields other than the filters.  A list field is a sequence,  *)
(* a field that holds one record or None is <<record>> or <<>>.            *)
(***************************************************************************)
\* the fields as __init__ leaves them
EmptyCache ==
    [devices |-> <<>>, ds_channels |-> <<>>, us_channels |-> <<>>,
     cmstatus |-> <<>>, upstream_service_flows |-> <<>>,
     downstream_service_flows |-> <<>>, temperature |-> <<>>,
     eventlog |-> <<>>, lanstatus |-> <<>>, wanstatus |-> <<>>,
     cm_systeminfo |-> <<>>, global_settings |-> <<>>]

\* the fields a getter resets before its request and fills from the body
FieldsOf(o) ==
    CASE o = "async_get_devices" -> {"devices"}
      [] o = "async_get_downstream" -> {"ds_channels"}
      [] o = "async_get_upstream" -> {"us_channels"}
      [] o = "async_get_lanstatus" -> {"lanstatus"}
      [] o = "async_get_wanstatus" -> {"wanstatus"}
      [] o = "async_get_cm_system_info" -> {"cm_systeminfo"}
      [] o = "async_get_cmstatus_and_service_flows" ->
            {"cmstatus", "downstream_service_flows", "upstream_service_flows"}
      [] o = "async_get_temperature" -> {"temperature"}
      [] o = "async_get_eventlog" -> {"eventlog"}
      [] o = "async_get_global_settings" -> {"global_settings"}
      [] OTHER -> {}

\* variant: a getter does not reset its fields before its request
NotCleared(o, c) == c

\* variant: a getter resets every cached field before its request
ClearedAll(o, c) == [f \in DOMAIN c |-> <<>>]

\* "self.devices = []", "self.lanstatus = None", ... of getter o
Cleared(o, c) ==
    [f \in DOMAIN c |-> IF f \in FieldsOf(o) THEN <<>> ELSE c[f]]

Min(S) == CHOOSE x \in S : \A y \in S : x <= y

\* ipaddress.ip_address on the dotted text of an IPv4 address, the text
\* split at the dots: the address as a number
convert_ip(octets) ==
    ((octets[1] * 256 + octets[2]) * 256 + octets[3]) * 256 + octets[4]

\* datetime.strptime(lease_time, "00:%H:%M:%S"), the text split at the
\* colons after "00": the time of day in seconds (the date is fixed)
strptime(hms) == hms[1] * 3600 + hms[2] * 60 + hms[3]

\* Device(...) with the converters of its attributes
Device(mac, hostname, ip, interface, speed, interface_id, method, lease_time) ==
    [mac |-> mac, hostname |-> hostname, ip |-> convert_ip(ip),
     interface |-> interface, speed |-> speed, interface_id |-> interface_id,
     method |-> method, lease_time |-> strptime(lease_time)]

\* variant: the last tuple is left out
DeviceCountDropLast(lists) ==
    IF Min({Len(lists[t]) : t \in DOMAIN lists}) = 0 THEN 0
    ELSE Min({Len(lists[t]) : t \in DOMAIN lists}) - 1

\* the number of tuples zip() yields on the eight lists
DeviceCount(lists) == Min({Len(lists[t]) : t \in DOMAIN lists})

\* the loop of async_get_devices over zip(...); lists are the texts of the
\* eight tags in document order, an IPv4Addr text split at its "/"
Devices(lists) ==
    [i \in 1..DeviceCount(lists) |->
        Device(lists.MACAddr[i], lists.hostname[i], lists.IPv4Addr[i][1],
               lists.interface[i], lists.speed[i], lists.interfaceid[i],
               lists.method[i], lists.leaseTime[i])]

\* the records a loop appended before it ended: all of them, or those
\* before the faulty one
Appended(body) ==
    IF body.kind = "ok" THEN body.records
    ELSE IF body.kind = "malformed" THEN <<>>
    ELSE SubSeq(body.records, 1, body.at - 1)

RECURSIVE Insert(_, _)
\* e put behind the last element of the sorted q that is not greater
Insert(q, e) ==
    IF q = <<>> THEN <<e>>
    ELSE IF q[Len(q)] <= e THEN Append(q, e)
    ELSE Append(Insert(SubSeq(q, 1, Len(q) - 1), e), q[Len(q)])

RECURSIVE Sorted(_)
\* list.sort(key=evEpoch), an event being its evEpoch
Sorted(q) ==
    IF q = <<>> THEN <<>>
    ELSE Insert(Sorted(SubSeq(q, 1, Len(q) - 1)), q[Len(q)])

\* variant: the events are left in document order
KeptInDocumentOrder(events) == events

\* self.eventlog.sort(key=(lambda e: e.evEpoch))
SortedByEpoch(events) == Sorted(events)

\* the service flows before the first one of an unknown direction
FlowsRead(flows) ==
    IF \E i \in DOMAIN flows : flows[i].direction \notin {1, 2}
    THEN SubSeq(flows, 1,
                Min({i \in DOMAIN flows : flows[i].direction \notin {1, 2}}) - 1)
    ELSE flows

\* variant: every flow is taken as a downstream flow
AnyDirection(flow) == TRUE

IsDownstream(flow) == flow.direction = 1

IsUpstream(flow) == flow.direction = 2

\* the fields of getter o after its try block ran on a body, the fields
\* having been reset before
Decoded(o, body) ==
    CASE o = "async_get_devices" ->
            [devices |-> IF body.kind = "malformed" THEN <<>>
                         ELSE IF body.kind \in DeviceFaults
                         THEN SubSeq(Devices(body.records), 1, body.at - 1)
                         ELSE Devices(body.records)]
      [] o = "async_get_downstream" -> [ds_channels |-> Appended(body)]
      [] o = "async_get_upstream" -> [us_channels |-> Appended(body)]
      [] o = "async_get_eventlog" ->
            [eventlog |-> IF DecodeRaises(o, body) = "none"
                          THEN SortedByEpoch(Appended(body))
                          ELSE Appended(body)]
      [] o = "async_get_cmstatus_and_service_flows" ->
            [cmstatus |-> IF \/ body.kind = "malformed"
                             \/ body.kind # "ok" /\ body.at = 0
                          THEN <<>> ELSE <<body.head>>,
             downstream_service_flows |->
                SelectSeq(FlowsRead(FlowsBefore(body)), IsDownstream),
             upstream_service_flows |->
                SelectSeq(FlowsRead(FlowsBefore(body)), IsUpstream)]
      [] OTHER ->
            [f \in FieldsOf(o) |->
                IF body.kind = "ok" THEN <<body.head>> ELSE <<>>]

\* the cached fields after the response r to the request of getter o
\* arrived, the client holding token tok
Stored(o, tok, r, c) ==
    IF _async_ws_get_function(tok, r).exc # "none" THEN c
    ELSE [f \in DOMAIN c |->
             IF f \in FieldsOf(o) THEN Decoded(o, r.body)[f] ELSE c[f]]

\* the fields when the step ends at the await of the getter request: the
\* getter has reset its fields on the way
Reset(o, c) == IF pc' = "ws_get" THEN Cleared(o, c) ELSE c

(***************************************************************************)
(* State changes.                                                          *)
(***************************************************************************)
Go(p, tok, rq, res, rv, f, ft, nv, lc) ==
    /\ pc' = p
    /\ token' = tok
    /\ reqs' = rq
    /\ result' = res
    /\ ret' = rv
    /\ ipv6_filters' = f
    /\ ipv6_filters_time' = ft
    /\ new_value' = nv
    /\ lastCookie' = lc

\* variant: the last request is sent once more before the error is raised
RaiseAfterResend(exc, tok, f, ft, lc) ==
    Go("idle", tok, Append(reqs, reqs[Len(reqs)]), exc, None, f, ft,
       new_value, lc)

\* the public method raises exc
Raise(exc, tok, f, ft, lc) ==
    Go("idle", tok, reqs, exc, None, f, ft, new_value, lc)

\* the public method returns v
Return(v, tok, f, ft, lc) ==
    Go("idle", tok, reqs, "ok", v, f, ft, new_value, lc)

\* the cookies of the response, when one arrived
Received(r) == IF r.fail = "send" THEN lastCookie ELSE r.cookies

\* the request a public method sends for itself once it holds a token
OwnRequest(o, tok) ==
    IF o = "async_reboot_device" THEN SetRequest(tok, CMD_REBOOT, <<>>)
    ELSE IF o = "async_close_session" THEN SetRequest(tok, CMD_LOGOUT, <<>>)
    ELSE GetRequest(tok, GetterCmd[o])

OwnAwait(o) ==
    IF o \in {"async_reboot_device", "async_close_session"}
    THEN "ws_set" ELSE "ws_get"

\* a public method from the end of its "if self.token is None" to its
\* first await: it empties what it is about to fetch and sends its request
SendOwn(o, tok, rq, lc) ==
    Go(OwnAwait(o), tok, Append(rq, OwnRequest(o, tok)), "pending", None,
       IF o \in FilterGetters THEN <<>> ELSE ipv6_filters,
       IF o \in FilterGetters THEN <<>> ELSE ipv6_filters_time,
       None, lc)

\* async_initialize_token up to the await of the login page
SendLoginPage ==
    Go("login_get", token, <<LoginPageRequest>>, "pending", None,
       ipv6_filters, ipv6_filters_time, None, lastCookie)

\* a public method is called with argument a
Called(o, a) ==
    /\ pc = "idle"
    /\ op' = o
    /\ arg' = a
    /\ tokenAtCall' = token

\* variant: the login is not skipped when a token is held
AlwaysLogin(o) == SendLoginPage

\* "if self.token is None: await self.async_initialize_token()" and the
\* method's own request when a token is held
EnsureToken(o) ==
    IF token = None THEN SendLoginPage
    ELSE SendOwn(o, token, <<>>, lastCookie)

(***************************************************************************)
(* Calls of the public methods.                                            *)
(***************************************************************************)
async_get_devices ==
    /\ Called("async_get_devices", 0)
    /\ EnsureToken("async_get_devices")
    /\ cache' = Reset("async_get_devices", cache)
    /\ UNCHANGED aside

async_get_downstream ==
    /\ Called("async_get_downstream", 0)
    /\ EnsureToken("async_get_downstream")
    /\ cache' = Reset("async_get_downstream", cache)
    /\ UNCHANGED aside

async_get_upstream ==
    /\ Called("async_get_upstream", 0)
    /\ EnsureToken("async_get_upstream")
    /\ cache' = Reset("async_get_upstream", cache)
    /\ UNCHANGED aside

async_get_ipv6_filtering ==
    /\ Called("async_get_ipv6_filtering", 0)
    /\ EnsureToken("async_get_ipv6_filtering")
    /\ cache' = Reset("async_get_ipv6_filtering", cache)
    /\ UNCHANGED aside

async_get_lanstatus ==
    /\ Called("async_get_lanstatus", 0)
    /\ EnsureToken("async_get_lanstatus")
    /\ cache' = Reset("async_get_lanstatus", cache)
    /\ UNCHANGED aside

async_get_wanstatus ==
    /\ Called("async_get_wanstatus", 0)
    /\ EnsureToken("async_get_wanstatus")
    /\ cache' = Reset("async_get_wanstatus", cache)
    /\ UNCHANGED aside

async_get_cm_system_info ==
    /\ Called("async_get_cm_system_info", 0)
    /\ EnsureToken("async_get_cm_system_info")
    /\ cache' = Reset("async_get_cm_system_info", cache)
    /\ UNCHANGED aside

async_get_cmstatus_and_service_flows ==
    /\ Called("async_get_cmstatus_and_service_flows", 0)
    /\ EnsureToken("async_get_cmstatus_and_service_flows")
    /\ cache' = Reset("async_get_cmstatus_and_service_flows", cache)
    /\ UNCHANGED aside

async_get_temperature ==
    /\ Called("async_get_temperature", 0)
    /\ EnsureToken("async_get_temperature")
    /\ cache' = Reset("async_get_temperature", cache)
    /\ UNCHANGED aside

async_get_eventlog ==
    /\ Called("async_get_eventlog", 0)
    /\ EnsureToken("async_get_eventlog")
    /\ cache' = Reset("async_get_eventlog", cache)
    /\ UNCHANGED aside

async_reboot_device ==
    /\ Called("async_reboot_device", 0)
    /\ EnsureToken("async_reboot_device")
    /\ UNCHANGED cache
    /\ UNCHANGED aside

\* starts with _async_get_ipv6_filter_states, that is async_get_ipv6_filtering
async_toggle_ipv6_filter ==
    /\ \E idd \in {1, 2} : Called("async_toggle_ipv6_filter", idd)
    /\ EnsureToken("async_toggle_ipv6_filter")
    /\ cache' = Reset("async_toggle_ipv6_filter", cache)
    /\ UNCHANGED aside

\* only _async_initialize_valid_token when no token is held
async_get_global_settings ==
    /\ Called("async_get_global_settings", 0)
    /\ IF token = None THEN SendLoginPage
       ELSE SendOwn("async_get_global_settings", token, <<>>, lastCookie)
    /\ cache' = Reset("async_get_global_settings", cache)
    /\ UNCHANGED aside

async_close_session ==
    /\ Called("async_close_session", 0)
    /\ IF ~Truthy(token)
       THEN Go("idle", token, <<>>, "ok", None, ipv6_filters,
               ipv6_filters_time, None, lastCookie)
       ELSE SendOwn("async_close_session", token, <<>>, lastCookie)
    /\ UNCHANGED cache
    /\ UNCHANGED aside

async_initialize_token ==
    /\ Called("async_initialize_token", 0)
    /\ SendLoginPage
    /\ UNCHANGED cache
    /\ UNCHANGED aside

(***************************************************************************)
(* Responses.                                                              *)
(***************************************************************************)
\* the login page answers: the rest of _async_initialize_valid_token, then
\* its caller goes on
LoginPageResponseWith(r) ==
    /\ pc = "login_get"
    /\ LET out == _async_initialize_valid_token(token, r)
          IN  IF out.exc # "none"
              THEN Raise(out.exc, out.token, ipv6_filters, ipv6_filters_time,
                         Received(r))
              ELSE IF op \in PhaseOneOnly
              THEN SendOwn(op, out.token, reqs, Received(r))
              ELSE Go("login_post", out.token,
                      Append(reqs, LoginRequest(out.token)), "pending", None,
                      ipv6_filters, ipv6_filters_time, new_value, Received(r))
    /\ cache' = Reset(op, cache)
    /\ UNCHANGED <<op, arg, tokenAtCall>>

LoginPageResponse ==
    /\ \E r \in Responses({OkBody}) : LoginPageResponseWith(r)
    /\ UNCHANGED aside

\* the login POST answers: the rest of _async_do_login_with_password, then
\* the caller of async_initialize_token goes on
LoginResponseWith(r) ==
    /\ pc = "login_post"
    /\ LET out == _async_do_login_with_password(token, r)
          IN  IF out.exc # "none"
              THEN Raise(out.exc, out.token, ipv6_filters, ipv6_filters_time,
                         Received(r))
              ELSE IF op = "async_initialize_token"
              THEN Return(None, out.token, ipv6_filters, ipv6_filters_time,
                          Received(r))
              ELSE SendOwn(op, out.token, reqs, Received(r))
    /\ cache' = Reset(op, cache)
    /\ UNCHANGED <<op, arg, tokenAtCall>>

LoginResponse ==
    /\ \E r \in Responses({OkBody}) : LoginResponseWith(r)
    /\ UNCHANGED aside

\* the response to the getter request arrives: _async_ws_get_function from
\* the return of session.post to its await of response.text(); the cookie
\* is stored as the token before that await, the body not yet read
GetterResponseWith(r) ==
    /\ pc = "ws_get"
    /\ r.fail # "read"
    /\ LET out == _async_ws_get_function(token, r)
       IN  IF out.exc # "none"
           THEN Raise(out.exc, out.token, ipv6_filters, ipv6_filters_time,
                      Received(r))
           ELSE Go("ws_get_text", out.token, reqs, "pending", None,
                   ipv6_filters, ipv6_filters_time, new_value, Received(r))
    /\ UNCHANGED cache
    /\ UNCHANGED <<op, arg, tokenAtCall>>

GetterResponse ==
    /\ \E r \in Responses({OkBody}) : GetterResponseWith(r)
    /\ UNCHANGED aside

\* the body of the response r, whose status and cookie were taken, is read
\* or the reading fails: the rest of _async_ws_get_function, the decoder of
\* the public method and, for async_toggle_ipv6_filter, its loop and
\* _async_update_ipv6_filter_states up to the await of the setter (the
\* token is a cookie value there, so it does not log in)
GetterTextWith(r) ==
    /\ pc = "ws_get_text"
    /\ r.fail # "send" /\ r.status = 200 /\ r.cookies = lastCookie
    /\ LET out == _async_ws_get_function(token, r)
           dec == Decode(op, token, r.body)
           f   == IF op \in FilterGetters
                  THEN DecodedFilters(r.body) ELSE ipv6_filters
           ft  == IF op \in FilterGetters
                  THEN DecodedTime(r.body) ELSE ipv6_filters_time
           states == FilterStates(f)
       IN  IF out.exc # "none"
           THEN Raise(out.exc, out.token, ipv6_filters, ipv6_filters_time,
                      lastCookie)
           ELSE IF dec.exc # "none"
           THEN Raise(dec.exc, dec.token, f, ft, lastCookie)
           ELSE IF op # "async_toggle_ipv6_filter"
           THEN Return(None, dec.token, f, ft, lastCookie)
           ELSE IF NewValue(states, arg) # None
           THEN Go("ws_set", dec.token,
                   Append(reqs, SetRequest(dec.token, CMD_SET_IPV6_FILTER_RULE,
                              UpdateParams(Toggled(states, arg), ft[1]))),
                   "pending", None, f, ft, NewValue(states, arg), lastCookie)
           ELSE Return(None, dec.token, f, ft, lastCookie)
    /\ cache' = Stored(op, token, r, cache)
    /\ UNCHANGED <<op, arg, tokenAtCall>>

GetterText ==
    /\ \E r \in Responses(Bodies(op)) : GetterTextWith(r)
    /\ UNCHANGED aside

\* the response to the setter request arrives: _async_ws_set_function from
\* the return of session.post to its await of response.text(), the cookie
\* being stored as the token before that await
SetterResponseWith(r) ==
    /\ pc = "ws_set"
    /\ r.fail # "read"
    /\ LET out == _async_ws_set_function(token, r)
       IN  IF out.exc # "none"
           THEN Raise(out.exc, out.token, ipv6_filters, ipv6_filters_time,
                      Received(r))
           ELSE Go("ws_set_text", out.token, reqs, "pending", None,
                   ipv6_filters, ipv6_filters_time, new_value, Received(r))
    /\ UNCHANGED cache
    /\ UNCHANGED <<op, arg, tokenAtCall>>

SetterResponse ==
    /\ \E r \in Responses({OkBody}) : SetterResponseWith(r)
    /\ UNCHANGED aside

\* the body of the setter response is read or the reading fails: the rest
\* of _async_ws_set_function, then the rest of the public method
SetterTextWith(r) ==
    /\ pc = "ws_set_text"
    /\ r.fail # "send" /\ r.status = 200 /\ r.cookies = lastCookie
    /\ LET out == _async_ws_set_function(token, r)
       IN  IF out.exc # "none"
           THEN Raise(out.exc, out.token, ipv6_filters, ipv6_filters_time,
                      lastCookie)
           ELSE IF op \in {"async_reboot_device", "async_close_session"}
           THEN Return(None, None, ipv6_filters, ipv6_filters_time,
                       lastCookie)
           ELSE Return(new_value, token, ipv6_filters, ipv6_filters_time,
                       lastCookie)
    /\ UNCHANGED cache
    /\ UNCHANGED <<op, arg, tokenAtCall>>

SetterText ==
    /\ \E r \in Responses({OkBody}) : SetterTextWith(r)
    /\ UNCHANGED aside

(***************************************************************************)
(* Two callers.  Each has a coroutine of its own on the one client:        *)
(*   pc       the await it is suspended at ("idle": none in progress)      *)
(*   op       the public method it runs                                    *)
(*   sent     the token its getter request carried                         *)
(*   pending  <<>>, or <<the response the device sent to its request>>,    *)
(*            which its coroutine has not yet been resumed with            *)
(*   result   "pending", "ok" or the class of the exception raised         *)
(*   joined   when the getter request sent last was sent, by this caller   *)
(*            or by the other one, the getter request of the other of the  *)
(*            two was in flight                                            *)
(*   lost     "none", or what became of the token when a call of this      *)
(*            caller ended whose request had been in flight together with  *)
(*            that of the other caller, both carrying the same token:      *)
(*            "overwritten" or "cleared"                                   *)
(***************************************************************************)
Tasks == {1, 2}

IdleTask ==
    [pc |-> "idle", op |-> "__init__", sent |-> None, pending |-> <<>>,
     result |-> "ok", joined |-> FALSE, lost |-> "none"]

(***************************************************************************)
(* The client after ConnectBox.__init__, and its use by one caller.        *)
(***************************************************************************)
Constructed ==
    /\ token = None
    /\ ipv6_filters = <<>>
    /\ ipv6_filters_time = <<>>
    /\ pc = "idle"
    /\ op = "__init__"
    /\ arg = 0
    /\ new_value = None
    /\ reqs = <<>>
    /\ lastCookie = {}
    /\ tokenAtCall = None
    /\ result = "ok"
    /\ ret = None
    /\ cache = EmptyCache
    /\ cacheAtCall = EmptyCache
    /\ answer = <<>>
    /\ tasks = [t \in Tasks |-> IdleTask]
    /\ issued = {}
    /\ host = "192.168.0.1"
    /\ password = Password
    /\ headers = Headers("192.168.0.1")

Init ==
    /\ Constructed
    /\ given = <<>>
    /\ applied = <<>>

Next ==
    \/ async_get_devices
    \/ async_get_downstream
    \/ async_get_upstream
    \/ async_get_ipv6_filtering
    \/ async_get_lanstatus
    \/ async_get_wanstatus
    \/ async_get_cm_system_info
    \/ async_get_cmstatus_and_service_flows
    \/ async_get_temperature
    \/ async_get_eventlog
    \/ async_get_global_settings
    \/ async_toggle_ipv6_filter
    \/ async_reboot_device
    \/ async_close_session
    \/ async_initialize_token
    \/ LoginPageResponse
    \/ LoginResponse
    \/ GetterResponse
    \/ GetterText
    \/ SetterResponse
    \/ SetterText

Spec == Init /\ [][Next]_vars

(***************************************************************************)
(* Vocabulary of the properties.                                           *)
(***************************************************************************)
LibraryErrors ==
    {"ConnectBoxError", "ConnectBoxConnectionError", "ConnectBoxLoginError",
     "ConnectBoxNoDataAvailable"}

IsLoginPage(rq) == rq = LoginPageRequest

\* the credentials POST
IsLoginPost(rq) ==
    /\ rq.method = "POST"
    /\ rq.url = "/xml/setter.xml"
    /\ rq.data[2] = <<"fun", ToString(CMD_LOGIN)>>

\* a getter or setter request other than the credentials POST
IsOwn(rq) == rq.method = "POST" /\ ~IsLoginPost(rq)

\* the public method has returned or raised
Finished == pc = "idle" /\ op # "__init__"

\* the transport fails on response r of a getter or setter: the request
\* raises, or the body of a 200 response with a cookie cannot be read
TransportFails(r) ==
    \/ r.fail = "send"
    \/ r.fail = "read" /\ r.status = 200 /\ r.cookies # {}

\* the body kinds the decoder of o cannot read
FaultyKinds(o) ==
    IF o = "async_get_devices" THEN BodyKinds(o) \ {"ok", "missing_tag"}
    ELSE BodyKinds(o) \ {"ok"}

(***************************************************************************)
(* C1.  After a public method ended with one of the library's errors, the  *)
(* next token-requiring public method starts with the login-page GET (and  *)
(* so logs in before its own request) instead of using the token left      *)
(* behind.                                                                 *)
(***************************************************************************)
C1_ErrorForcesLogin ==
    [][(/\ pc = "idle"
        /\ result \in LibraryErrors
        /\ pc' # "idle"
        /\ op' \in TokenRequiringOps)
       => (reqs'[1] = LoginPageRequest /\ token = None)]_vars

(***************************************************************************)
(* C2.  When the two-phase login ends with an error of either phase, the   *)
(* token is None.                                                          *)
(***************************************************************************)
C2_LoginErrorClearsToken ==
    (/\ Finished
     /\ reqs # <<>>
     /\ IsLoginPage(reqs[Len(reqs)]) \/ IsLoginPost(reqs[Len(reqs)])
     /\ result \in {"ConnectBoxConnectionError", "ConnectBoxLoginError"})
    => token = None

(***************************************************************************)
(* C3.  A getter that receives a 200 response whose body is malformed,     *)
(* lacks a tag it looks up or holds a value its int()/float() rejects      *)
(* raises ConnectBoxNoDataAvailable and leaves the token None.             *)
(***************************************************************************)
C3_FaultyBodyIsNoData ==
    [][pc = "ws_get_text" =>
       (\A r \in Responses(Bodies(op)) :
          (/\ r.fail = "none" /\ r.status = 200 /\ r.cookies # {}
           /\ r.body.kind \in FaultyKinds(op)
           /\ GetterTextWith(r))
          => (result' = "ConnectBoxNoDataAvailable" /\ token' = None))]_vars

(***************************************************************************)
(* C4.  Rotation: after a public method that returned normally and         *)
(* received a response, the token is the sessionToken cookie of the last   *)
(* response.  As claimed, for every public method:                         *)
(***************************************************************************)
C4_RotationAll ==
    (Finished /\ result = "ok" /\ reqs # <<>>) => lastCookie = {token}

\* C4 as amended: rotation for every public method other than
\* async_reboot_device and async_close_session
C4_Rotation ==
    (/\ Finished /\ result = "ok" /\ reqs # <<>>
     /\ op \notin {"async_reboot_device", "async_close_session"})
    => lastCookie = {token}

\* a getter called with a token returned with another one
C4_Witness ==
    /\ Finished /\ result = "ok"
    /\ op \in LoginGetters
    /\ tokenAtCall # None
    /\ token # tokenAtCall
    /\ lastCookie = {token}

(***************************************************************************)
(* C5.  A getter or setter response with a status other than 200 leaves    *)
(* the token None and raises the generic ConnectBoxError.                  *)
(***************************************************************************)
C5_StatusError ==
    [][(pc = "ws_get" \/ pc = "ws_set") =>
       (\A r \in Responses({OkBody}) :
          (/\ r.fail # "send" /\ r.status # 200
           /\ GetterResponseWith(r) \/ SetterResponseWith(r))
          => (pc' = "idle" /\ result' = "ConnectBoxError" /\ token' = None))]_vars

\* a getter or setter called with a token has raised ConnectBoxError
C5_Witness ==
    /\ Finished /\ result = "ConnectBoxError"
    /\ IsOwn(reqs[Len(reqs)])
    /\ tokenAtCall \in Tokens
    /\ token = None

(***************************************************************************)
(* C6.  A timeout or transport failure of a getter or setter call, at the  *)
(* request or at the reading of the body, leaves the token None and raises *)
(* ConnectBoxConnectionError, also after the cookie was stored.            *)
(***************************************************************************)
C6_TransportError ==
    [][(pc \in {"ws_get", "ws_get_text", "ws_set", "ws_set_text"}) =>
       (\A r \in Responses({OkBody}) :
          (TransportFails(r) /\ (\/ GetterResponseWith(r)
                                  \/ GetterTextWith(r)
                                  \/ SetterResponseWith(r)
                                  \/ SetterTextWith(r)))
          => (/\ pc' = "idle"
              /\ result' = "ConnectBoxConnectionError"
              /\ token' = None))]_vars

\* a getter called without a token logged in and sent its request with
\* the token of the login; the response carried another cookie, which is
\* not what a request that failed to be sent leaves as the last cookie
\* received, so the response arrived and its cookie was stored; then its
\* body could not be read
C6_Witness ==
    /\ Finished /\ result = "ConnectBoxConnectionError"
    /\ op \in LoginGetters \ PhaseOneOnly
    /\ tokenAtCall = None
    /\ Len(reqs) = 3 /\ IsOwn(reqs[3])
    /\ lastCookie # {}
    /\ lastCookie # {reqs[3].data[1][2]}
    /\ token = None

(***************************************************************************)
(* C7.  A token-requiring public method called with a token sends no       *)
(* login request and starts with its own request; called without a token   *)
(* it sends one login-page GET, then one credentials POST, and only then   *)
(* its own requests.                                                       *)
(***************************************************************************)
C7_EnsureAuthenticated ==
    op \in TokenRequiringOps =>
        /\ reqs # <<>>
        /\ IF tokenAtCall # None
           THEN /\ reqs[1] = OwnRequest(op, tokenAtCall)
                /\ \A i \in DOMAIN reqs :
                      ~IsLoginPage(reqs[i]) /\ ~IsLoginPost(reqs[i])
           ELSE /\ IsLoginPage(reqs[1])
                /\ \A i \in DOMAIN reqs : i > 1 => ~IsLoginPage(reqs[i])
                /\ \A i \in DOMAIN reqs : i # 2 => ~IsLoginPost(reqs[i])
                /\ \A i \in DOMAIN reqs :
                      IsOwn(reqs[i]) => (i >= 3 /\ IsLoginPost(reqs[2]))

\* a method called without a token has logged in and sent its own request
C7_Witness ==
    /\ Finished /\ result = "ok"
    /\ op \in TokenRequiringOps
    /\ tokenAtCall = None
    /\ Len(reqs) = 3
    /\ IsLoginPage(reqs[1]) /\ IsLoginPost(reqs[2]) /\ IsOwn(reqs[3])

(***************************************************************************)
(* C8.  async_initialize_token starts with the login-page GET whether or   *)
(* not a token is held; the credentials POST carries the cookie of the     *)
(* login page; after a successful login the token is the cookie of the     *)
(* response to the credentials POST.                                       *)
(***************************************************************************)
C8_LoginUnconditional ==
    /\ op = "async_initialize_token" => (reqs # <<>> /\ IsLoginPage(reqs[1]))
    /\ pc = "login_post" =>
          /\ lastCookie # {}
          /\ Len(reqs) = 2
          /\ \A t \in lastCookie : reqs[2] = LoginRequest(t)
    /\ (Finished /\ op = "async_initialize_token" /\ result = "ok") =>
          /\ Len(reqs) = 2
          /\ IsLoginPost(reqs[2])
          /\ lastCookie = {token}

\* a login that started with a token held, sent another one with the
\* credentials and ended with a token that is not the one it sent
C8_Witness ==
    /\ Finished /\ result = "ok"
    /\ op = "async_initialize_token"
    /\ tokenAtCall \in Tokens
    /\ reqs[2].data[1][2] # tokenAtCall
    /\ token # reqs[2].data[1][2]
    /\ lastCookie = {token}

(***************************************************************************)
(* C9.  async_get_global_settings called without a token sends the         *)
(* login-page GET and then its getter request, never the credentials POST; *)
(* every other token-requiring method called without a token sends the     *)
(* credentials POST before its own request.                                *)
(***************************************************************************)
C9_GlobalSettingsPhaseOne ==
    /\ (op = "async_get_global_settings" /\ tokenAtCall = None) =>
          /\ reqs # <<>>
          /\ IsLoginPage(reqs[1])
          /\ \A i \in DOMAIN reqs : ~IsLoginPost(reqs[i])
          /\ Len(reqs) <= 2
          /\ Len(reqs) = 2 =>
                /\ reqs[2].url = "/xml/getter.xml"
                /\ reqs[2].data[2] = <<"fun", ToString(CMD_GLOBALSETTINGS)>>
    /\ (op \in TokenRequiringOps /\ tokenAtCall = None) =>
          \A i \in DOMAIN reqs :
             IsOwn(reqs[i]) => \E j \in 1..(i - 1) : IsLoginPost(reqs[j])

\* the global settings were read after the login page alone
C9_Witness ==
    /\ Finished /\ result = "ok"
    /\ op = "async_get_global_settings"
    /\ tokenAtCall = None
    /\ Len(reqs) = 2

(***************************************************************************)
(* C10.  When async_reboot_device or async_close_session returns normally  *)
(* the token is None.                                                      *)
(***************************************************************************)
C10_RebootAndLogoutClearToken ==
    (/\ Finished /\ result = "ok"
     /\ op \in {"async_reboot_device", "async_close_session"})
    => token = None

(***************************************************************************)
(* async_toggle_ipv6_filter on filter sets of several entries.  SpecToggle *)
(* is the client used for toggling only, against a device whose filter     *)
(* responses hold up to MaxToggleFilters instances with ids                *)
(* 1..MaxToggleIdd, ids repeated or not, and which sets the cookie "1" at   *)
(* a login and the cookie "2" afterwards.                                  *)
(***************************************************************************)
MaxToggleFilters == 2
MaxToggleIdd == 2

ToggleInstances == [idd : 1..MaxToggleIdd, enabled : {0, 1}]

ToggleBodies ==
    [kind : BodyKinds("async_toggle_ipv6_filter"),
     instances : SeqsUpTo(ToggleInstances, MaxToggleFilters),
     time : TimeSections, head : {0}, records : {<<>>}, at : {0}]

ToggleCall ==
    /\ \E idd \in 1..MaxToggleIdd : Called("async_toggle_ipv6_filter", idd)
    /\ EnsureToken("async_toggle_ipv6_filter")
    /\ UNCHANGED cache
    /\ answer' = <<>>
    /\ UNCHANGED <<cacheAtCall, given, applied, tasks, issued,
                   host, password, headers>>

ToggleLoginPageResponse ==
    /\ \E r \in SmallResponses({OkBody}) : LoginPageResponseWith(r)
    /\ UNCHANGED aside

ToggleLoginResponse ==
    /\ \E r \in SmallResponses({OkBody}) : LoginResponseWith(r)
    /\ UNCHANGED aside

ToggleGetterResponse ==
    /\ \E r \in SmallOwnResponses({OkBody}) : GetterResponseWith(r)
    /\ UNCHANGED aside

\* answer records the document the fetch was answered with
ToggleGetterText ==
    /\ \E r \in SmallOwnResponses(ToggleBodies) :
          /\ GetterTextWith(r)
          /\ answer' = <<r>>
    /\ UNCHANGED <<cacheAtCall, given, applied, tasks, issued,
                   host, password, headers>>

ToggleSetterResponse ==
    /\ \E r \in SmallOwnResponses({OkBody}) : SetterResponseWith(r)
    /\ UNCHANGED aside

ToggleSetterText ==
    /\ \E r \in SmallOwnResponses({OkBody}) : SetterTextWith(r)
    /\ UNCHANGED aside

NextToggle ==
    \/ ToggleCall
    \/ ToggleLoginPageResponse
    \/ ToggleLoginResponse
    \/ ToggleGetterResponse
    \/ ToggleGetterText
    \/ ToggleSetterResponse
    \/ ToggleSetterText

SpecToggle == Init /\ [][NextToggle]_vars

\* the value of the first field named key in the body of request rq
Field(rq, key) ==
    rq.data[CHOOSE i \in DOMAIN rq.data :
               /\ rq.data[i][1] = key
               /\ \A j \in 1..(i - 1) : rq.data[j][1] # key][2]

HasField(rq, key) == \E i \in DOMAIN rq.data : rq.data[i][1] = key

\* the fetch of the filter set and the update of the filter states
IsFilterFetch(rq) ==
    /\ rq.url = "/xml/getter.xml"
    /\ Field(rq, "fun") = ToString(CMD_GET_IPV6_FILTER_RULE)

IsFilterUpdate(rq) ==
    /\ rq.url = "/xml/setter.xml"
    /\ Field(rq, "fun") = ToString(CMD_SET_IPV6_FILTER_RULE)

FilterUpdates == {i \in DOMAIN reqs : IsFilterUpdate(reqs[i])}

\* the ids of a filter set
Ids(filters) == {filters[i].idd : i \in DOMAIN filters}

(***************************************************************************)
(* C11.  As claimed: async_toggle_ipv6_filter called with an id that no    *)
(* stored filter has returns None at once, without a request, and leaves   *)
(* ipv6_filters and _ipv6_filters_time as they were.                       *)
(***************************************************************************)
C11_NotFoundNoCall ==
    [][(/\ pc = "idle"
        /\ op' = "async_toggle_ipv6_filter"
        /\ arg' \notin Ids(ipv6_filters)
        /\ <<pc, op, arg, reqs, result>>' # <<pc, op, arg, reqs, result>>)
       => (/\ pc' = "idle" /\ result' = "ok" /\ ret' = None
           /\ reqs' = <<>>
           /\ ipv6_filters' = ipv6_filters
           /\ ipv6_filters_time' = ipv6_filters_time)]_vars

\* C11 as amended: a call that returns has fetched the filter set; when
\* the document it fetched has no instance with the id, the call sends no
\* update (function 112): its last request is the fetch (function 111), it
\* returns None, and the stored filters and schedule are those of the
\* fetched document.
C11_NotFound ==
    (Finished /\ op = "async_toggle_ipv6_filter" /\ result = "ok")
    => /\ answer # <<>>
       /\ arg \notin Ids(answer[1].body.instances) =>
             /\ ret = None
             /\ FilterUpdates = {}
             /\ reqs # <<>> /\ IsFilterFetch(reqs[Len(reqs)])
             /\ ipv6_filters = answer[1].body.instances
             /\ ipv6_filters_time = <<FiltersTimeMode(answer[1].body.time)>>

\* a toggle of an id that a non-empty fetched set lacks has returned None,
\* the stored filters and the stored schedule, a daily one, being the
\* fetched ones
C11_Witness ==
    /\ Finished /\ op = "async_toggle_ipv6_filter" /\ result = "ok"
    /\ answer # <<>>
    /\ answer[1].body.instances # <<>>
    /\ arg \notin Ids(answer[1].body.instances)
    /\ answer[1].body.time.time_mode = 2
    /\ ipv6_filters = answer[1].body.instances
    /\ ipv6_filters_time = <<FiltersTimeMode(answer[1].body.time)>>
    /\ ret = None
    /\ Len(reqs) = 1 /\ IsFilterFetch(reqs[1])

(***************************************************************************)
(* C12.  async_toggle_ipv6_filter with an id of the fetched filter set     *)
(* sends, after the fetch, exactly one update (function 112): one enabled  *)
(* value per fetched filter in fetch order, the fetched flags with the     *)
(* first entry of the id flipped; a delete list of zeros; every fetched id *)
(* in order; TMode and the TRule of the fetched schedule.  It returns the  *)
(* new enabled value of the toggled entry.                                 *)
(***************************************************************************)
\* index of the first fetched filter with the id of the call
ToggledIndex ==
    CHOOSE i \in DOMAIN ipv6_filters :
       /\ ipv6_filters[i].idd = arg
       /\ \A j \in 1..(i - 1) : ipv6_filters[j].idd # arg

\* the enabled value the update must carry for the i-th fetched filter
ExpectedEnabled(i) ==
    IF i = ToggledIndex THEN 1 - ipv6_filters[i].enabled
    ELSE ipv6_filters[i].enabled

\* the TRule of the fetched schedule
ExpectedRule ==
    LET ftm == ipv6_filters_time[1]
    IN  IF ftm.TMode = 1 THEN ftm.XmlGeneralTime
        ELSE IF ftm.TMode = 2 THEN ftm.XmlDailyTime
        ELSE "0"

C12_ToggleUpdate ==
    op = "async_toggle_ipv6_filter" =>
       /\ Cardinality(FilterUpdates) <= 1
       /\ pc = "ws_set" => Cardinality(FilterUpdates) = 1
       /\ (Finished /\ result = "ok" /\ arg \in Ids(ipv6_filters)) =>
             /\ Cardinality(FilterUpdates) = 1
             /\ ret = IF ExpectedEnabled(ToggledIndex) = 1
                      THEN "True" ELSE "False"
       /\ \A u \in FilterUpdates :
             /\ u = Len(reqs)
             /\ u > 1 /\ IsFilterFetch(reqs[u - 1])
             /\ arg \in Ids(ipv6_filters)
             /\ Field(reqs[u], "enabled") =
                   Join([i \in DOMAIN ipv6_filters |->
                           ToString(ExpectedEnabled(i))], "*")
             /\ Field(reqs[u], "del") =
                   Join([i \in DOMAIN ipv6_filters |-> "0"], "*")
             /\ Field(reqs[u], "idd") =
                   Join([i \in DOMAIN ipv6_filters |->
                           ToString(ipv6_filters[i].idd)], "*")
             /\ Field(reqs[u], "TMode") = ToString(ipv6_filters_time[1].TMode)
             /\ Field(reqs[u], "TRule") = ExpectedRule

\* of two fetched filters with the same id, enabled, the first was switched
\* off and the second left on, under a daily schedule
C12_Witness ==
    /\ Finished /\ op = "async_toggle_ipv6_filter" /\ result = "ok"
    /\ Len(ipv6_filters) = 2
    /\ ipv6_filters[1].idd = arg /\ ipv6_filters[2].idd = arg
    /\ ipv6_filters[1].enabled = 1 /\ ipv6_filters[2].enabled = 1
    /\ ret = "False"
    /\ Field(reqs[Len(reqs)], "enabled") = "0*1"
    /\ Field(reqs[Len(reqs)], "TMode") = "2"

(***************************************************************************)
(* SpecCache: the cached fields.  A caller polls one getter again and      *)
(* again; the device answers with bodies of up to MaxRecords records whose *)
(* values are 1..MaxValue, and sets the cookie "1" at a login and the      *)
(* cookie "2" afterwards.                                                  *)
(***************************************************************************)
MaxRecords == 2
MaxValue == 2

RecordValues == 1..MaxValue

\* the getters that fill a field of cache or the filters
CacheGetters == LoginGetters \cup PhaseOneOnly

ListGetters ==
    {"async_get_downstream", "async_get_upstream", "async_get_eventlog"}

\* the <serviceflow> elements of a document whose values are marked v:
\* the Sfid numbers the flows of the document, dirs are their directions
FlowTexts(v, dirs) ==
    [i \in DOMAIN dirs |->
        [id |-> (v - 1) * MaxRecords + i, direction |-> dirs[i]]]

\* the documents of SpecCache; a faulty cmstatus document has the fault in
\* the fields of CmStatus or in one of up to two service flows
CacheBodies(o) ==
    IF o \in FilterGetters
    THEN [kind : BodyKinds(o), instances : SeqsUpTo(FilterInstances, MaxFilters),
          time : TimeSections, head : {0}, records : {<<>>}, at : {0}]
    ELSE IF o = "async_get_devices"
    THEN [kind : {"ok", "malformed"}, instances : {<<>>}, time : {NoSchedule},
          head : {0},
          records : {DeviceTexts(n, v) : n \in 0..MaxRecords, v \in RecordValues},
          at : {0}]
         \cup
         {b \in [kind : DeviceFaults, instances : {<<>>}, time : {NoSchedule},
                 head : {0},
                 records : {DeviceTexts(n, v) : n \in 1..MaxRecords,
                                                v \in RecordValues},
                 at : 1..MaxRecords] : b.at <= Len(b.records.MACAddr)}
    ELSE IF o \in ListGetters
    THEN [kind : {"ok", "malformed"}, instances : {<<>>}, time : {NoSchedule},
          head : {0}, records : SeqsUpTo(RecordValues, MaxRecords), at : {0}]
         \cup
         {b \in [kind : BodyKinds(o) \ {"ok", "malformed"}, instances : {<<>>},
                 time : {NoSchedule}, head : {0},
                 records : SeqsUpTo(RecordValues, MaxRecords),
                 at : 1..MaxRecords] : b.at <= Len(b.records)}
    ELSE IF o = "async_get_cmstatus_and_service_flows"
    THEN [kind : {"ok"}, instances : {<<>>}, time : {NoSchedule},
          head : RecordValues,
          records : {FlowTexts(v, d) : v \in RecordValues,
                                       d \in SeqsUpTo({1, 2, 3}, MaxRecords)},
          at : {0}]
         \cup
         [kind : {"malformed"}, instances : {<<>>}, time : {NoSchedule},
          head : RecordValues, records : {<<>>}, at : {0}]
         \cup
         UNION {[kind : BodyKinds(o) \ {"ok", "malformed"},
                 instances : {<<>>}, time : {NoSchedule}, head : {v},
                 records : {FlowTexts(v, d)}, at : 0..Len(d)] :
                   v \in RecordValues, d \in SeqsUpTo({1, 2, 3}, 2)}
    ELSE [kind : BodyKinds(o), instances : {<<>>}, time : {NoSchedule},
          head : RecordValues, records : {<<>>}, at : {0}]

CacheCall ==
    /\ \E o \in CacheGetters :
          /\ op \in {"__init__", o}
          /\ Called(o, 0)
          /\ EnsureToken(o)
          /\ cache' = Reset(o, cache)
    /\ cacheAtCall' = cache
    /\ answer' = <<>>
    /\ UNCHANGED <<given, applied, tasks, issued,
                   host, password, headers>>

CacheLoginPageResponse ==
    /\ \E r \in SmallResponses({OkBody}) : LoginPageResponseWith(r)
    /\ UNCHANGED aside

CacheLoginResponse ==
    /\ \E r \in SmallResponses({OkBody}) : LoginResponseWith(r)
    /\ UNCHANGED aside

\* answer keeps the response the call ended with
CacheGetterResponseWith(r) ==
    /\ GetterResponseWith(r)
    /\ answer' = IF pc' = "idle" THEN <<r>> ELSE answer
    /\ UNCHANGED <<cacheAtCall, given, applied, tasks, issued,
                   host, password, headers>>

CacheGetterResponse ==
    \E r \in SmallOwnResponses({OkBody}) : CacheGetterResponseWith(r)

CacheGetterTextWith(r) ==
    /\ GetterTextWith(r)
    /\ answer' = <<r>>
    /\ UNCHANGED <<cacheAtCall, given, applied, tasks, issued,
                   host, password, headers>>

CacheGetterText ==
    \E r \in SmallOwnResponses(CacheBodies(op)) : CacheGetterTextWith(r)

NextCache ==
    \/ CacheCall
    \/ CacheLoginPageResponse
    \/ CacheLoginResponse
    \/ CacheGetterResponse
    \/ CacheGetterText

SpecCache == Init /\ [][NextCache]_vars

\* the response arrived with status 200 and a cookie, and its body was read
Answered(r) == r.fail = "none" /\ r.status = 200 /\ r.cookies # {}

(***************************************************************************)
(* C13.  When the body read by async_get_cmstatus_and_service_flows has a  *)
(* service flow whose direction is neither 1 nor 2, at any position, the   *)
(* method raises ConnectBoxNoDataAvailable and downstream_service_flows    *)
(* and upstream_service_flows are empty afterwards.                        *)
(***************************************************************************)
C13_BadDirectionEmptiesFlows ==
    [][(pc = "ws_get_text" /\ op = "async_get_cmstatus_and_service_flows") =>
       (\A r \in SmallOwnResponses(CacheBodies(op)) :
          (/\ Answered(r) /\ r.body.kind = "ok"
           /\ \E i \in DOMAIN r.body.records :
                 r.body.records[i].direction \notin {1, 2}
           /\ CacheGetterTextWith(r))
          => (/\ pc' = "idle"
              /\ result' = "ConnectBoxNoDataAvailable"
              /\ cache'.downstream_service_flows = <<>>
              /\ cache'.upstream_service_flows = <<>>))]_vars

(***************************************************************************)
(* SpecSchedule: the decoding of the schedule of a filter response, the    *)
(* FiltersTimeMode(...) of async_get_ipv6_filtering with                   *)
(* _parse_general_time and _parse_daily_time, applied to a schedule with   *)
(* or without a GeneralTime section and with up to MaxEntries DailyTime    *)
(* entries.                                                                *)
(***************************************************************************)
MaxEntries == 2

SampleDays == {1, 2, 7}

SampleHours == {0, 1, 12, 23}

DailyEntries ==
    {t \in [daily : SampleDays, s : SampleHours, e : SampleHours] : t.s <= t.e}

Schedules ==
    [time_mode : {0, 1, 2},
     general : {<<>>, << << <<8, 15>>, <<17, 45>> >> >>},
     daily : SeqsUpTo(DailyEntries, MaxEntries)]

InitSchedule ==
    /\ Constructed
    /\ given \in Schedules
    /\ applied = <<>>

DecodeSchedule ==
    /\ applied = <<>>
    /\ applied' = <<FiltersTimeMode(given)>>
    /\ UNCHANGED <<token, ipv6_filters, ipv6_filters_time, pc, op, arg,
                   new_value, reqs, lastCookie, tokenAtCall, result, ret,
                   cache, cacheAtCall, answer, given, tasks, issued,
                   host, password, headers>>

SpecSchedule == InitSchedule /\ [][DecodeSchedule]_vars

\* hour h of day d lies in some entry, the end hour included
Covered(entries, d, h) ==
    \E i \in DOMAIN entries :
       /\ entries[i].daily = d
       /\ entries[i].s <= h /\ h <= entries[i].e

RECURSIVE Pow2(_)
Pow2(n) == IF n = 0 THEN 1 ELSE 2 * Pow2(n - 1)

RECURSIVE MaskValue(_, _, _)
\* the 24-bit number of day d whose bit for hour h, hour 0 being the most
\* significant one, is set exactly when the hour is covered; summed over
\* the hours h..23
MaskValue(entries, d, h) ==
    IF h > 23 THEN 0
    ELSE (IF Covered(entries, d, h) THEN Pow2(23 - h) ELSE 0)
         + MaskValue(entries, d, h + 1)

(***************************************************************************)
(* C14.  _parse_daily_time on entries (day, "start-end") with day in 1..7  *)
(* and 0 <= start <= end <= 23 returns the decimal values of seven 24-bit  *)
(* masks, joined by commas in the order of the days 1..7, the bit of hour  *)
(* h of day d being set exactly when an entry of day d has                 *)
(* start <= h <= end; the single entry (1, "0-23") gives 16777215 and six  *)
(* zeros.                                                                  *)
(***************************************************************************)
C14_DailyMasks ==
    applied # <<>> =>
       /\ applied[1].XmlDailyTime =
             Join([d \in 1..7 |-> ToString(MaskValue(given.daily, d, 0))], ",")
       /\ given.daily = << [daily |-> 1, s |-> 0, e |-> 23] >> =>
             applied[1].XmlDailyTime = "16777215,0,0,0,0,0,0"

\* two entries of day 2 that overlap in hour 1, and nothing else: hours
\* 0, 1 and 12 up to its end 12 are set
C14_Witness ==
    /\ applied # <<>>
    /\ given.daily = << [daily |-> 2, s |-> 0, e |-> 1],
                        [daily |-> 2, s |-> 1, e |-> 12] >>
    /\ applied[1].XmlDailyTime = "0,16775168,0,0,0,0,0"

(***************************************************************************)
(* C15.  A filter response without a GeneralTime section decodes to        *)
(* XmlGeneralTime = None, and one without a DailyTime section to           *)
(* XmlDailyTime = None.                                                    *)
(***************************************************************************)
C15_AbsentSectionsAreNone ==
    applied # <<>> =>
       /\ given.general = <<>> => applied[1].XmlGeneralTime = None
       /\ given.daily = <<>> => applied[1].XmlDailyTime = None

(***************************************************************************)
(* SpecDevice: the comparison of two Device records (data.py).  attr.s     *)
(* generates __eq__ over the attributes that are not declared cmp=False,   *)
(* on their converted values.                                              *)
(***************************************************************************)
\* the attributes of Device declared without cmp=False
DeviceCmpAttributes ==
    {"mac", "interface", "speed", "interface_id", "method", "lease_time"}

\* a == b for two Device records
DeviceEq(a, b) == \A f \in DeviceCmpAttributes : a[f] = b[f]

\* the arguments of Device(...) in order: two values for each
DeviceArguments ==
    [mac : {"AA:00", "AA:01"}, hostname : {"pc", "tv"},
     ip : {<<10, 0, 0, 1>>, <<10, 0, 0, 2>>},
     interface : {"Ethernet", "WiFi"}, speed : {"100", "1000"},
     interface_id : {"1", "2"}, method : {"1", "2"},
     lease_time : {<<0, 10, 0>>, <<0, 20, 0>>}]

DeviceOf(a) ==
    Device(a.mac, a.hostname, a.ip, a.interface, a.speed, a.interface_id,
           a.method, a.lease_time)

\* the first record is a fixed one, the second any
InitDevice ==
    /\ Constructed
    /\ given \in {[mac |-> "AA:00", hostname |-> "pc", ip |-> <<10, 0, 0, 1>>,
                   interface |-> "Ethernet", speed |-> "100",
                   interface_id |-> "1", method |-> "1",
                   lease_time |-> <<0, 10, 0>>]} \X DeviceArguments
    /\ applied = <<>>

CompareDevices ==
    /\ applied = <<>>
    /\ applied' = <<DeviceEq(DeviceOf(given[1]), DeviceOf(given[2]))>>
    /\ UNCHANGED <<token, ipv6_filters, ipv6_filters_time, pc, op, arg,
                   new_value, reqs, lastCookie, tokenAtCall, result, ret,
                   cache, cacheAtCall, answer, given, tasks, issued,
                   host, password, headers>>

SpecDevice == InitDevice /\ [][CompareDevices]_vars

(***************************************************************************)
(* C16.  Two Device records are equal exactly when their MAC addresses     *)
(* are equal, whatever their other attributes.                             *)
(***************************************************************************)
C16_EqualByMac ==
    applied # <<>> => (applied[1] <=> given[1].mac = given[2].mac)

(***************************************************************************)
(* SpecZip: the try block of async_get_devices on a well-formed document   *)
(* in which each of the eight tags occurs 0..MaxDevices times.             *)
(***************************************************************************)
MaxDevices == 3

InitZip ==
    /\ Constructed
    /\ given \in {DeviceTextsOf(lens, 1) : lens \in [DeviceTags -> 0..MaxDevices]}
    /\ applied = <<>>

\* the document as a body
ZipBody ==
    [kind |-> "ok", instances |-> <<>>, time |-> NoSchedule, head |-> 0,
     records |-> given, at |-> 0]

ReadDevices ==
    /\ applied = <<>>
    /\ applied' = <<[devices |-> Decoded("async_get_devices", ZipBody).devices,
                     exc |-> DecodeRaises("async_get_devices", ZipBody)]>>
    /\ UNCHANGED <<token, ipv6_filters, ipv6_filters_time, pc, op, arg,
                   new_value, reqs, lastCookie, tokenAtCall, result, ret,
                   cache, cacheAtCall, answer, given, tasks, issued,
                   host, password, headers>>

SpecZip == InitZip /\ [][ReadDevices]_vars

\* the length of the shortest of the eight lists
ShortestList ==
    CHOOSE n \in 0..MaxDevices :
       /\ \A t \in DeviceTags : n <= Len(given[t])
       /\ \E t \in DeviceTags : n = Len(given[t])

(***************************************************************************)
(* C17.  async_get_devices makes as many Device records as the shortest    *)
(* of the eight lists has values, the i-th record holding the i-th value   *)
(* of every list, and raises no error when the lists differ in length.     *)
(***************************************************************************)
C17_ZipOfLists ==
    applied # <<>> =>
       /\ applied[1].exc = "none"
       /\ Len(applied[1].devices) = ShortestList
       /\ \A i \in 1..ShortestList :
             LET d == applied[1].devices[i]
             IN  /\ d.mac = given.MACAddr[i]
                 /\ d.hostname = given.hostname[i]
                 /\ d.ip = convert_ip(given.IPv4Addr[i][1])
                 /\ d.interface = given.interface[i]
                 /\ d.speed = given.speed[i]
                 /\ d.interface_id = given.interfaceid[i]
                 /\ d.method = given.method[i]
                 /\ d.lease_time = strptime(given.leaseTime[i])

\* 3 MAC addresses, 2 hostnames and 3 values of every other tag gave 2
\* devices
C17_Witness ==
    /\ applied # <<>>
    /\ Len(given.MACAddr) = 3
    /\ Len(given.hostname) = 2
    /\ \A t \in DeviceTags \ {"hostname"} : Len(given[t]) = 3
    /\ Len(applied[1].devices) = 2
    /\ applied[1].exc = "none"

(***************************************************************************)
(* SpecConcurrent: two callers await getters on the same client without    *)
(* waiting for each other.  A coroutine runs from one await to the next or *)
(* to its end without interruption: from the arrival of its response to    *)
(* its next request or, in _async_ws_get_function, to the await of the     *)
(* body, and from there to its end.  The device answers the requests in    *)
(* any order and the coroutines are resumed in any order.                  *)
(***************************************************************************)
ConcurrentOps == {"async_get_lanstatus", "async_get_wanstatus"}

\* what the device answers: nothing before the timeout, 200 with the
\* cookie "1" or "2" or none and a body that can be read or not, or 500
ConcurrentResponses ==
    [fail : {"send"}, exc : {"TimeoutError"}, status : {0}, cookies : {{}},
     body : {OkBody}]
    \cup
    [fail : {"read"}, exc : {"TimeoutError"}, status : {200},
     cookies : {{}, {ToString(1)}, {ToString(2)}}, body : {OkBody}]
    \cup
    [fail : {"none"}, exc : {"none"}, status : {500}, cookies : {{}},
     body : {OkBody}]
    \cup
    [fail : {"none"}, exc : {"none"}, status : {200},
     cookies : {{}, {ToString(1)}, {ToString(2)}}, body : {OkBody}]

Other(t) == CHOOSE u \in Tasks : u # t

\* variant: a public method starts only when no other one is in progress
MayCallAlone(t) == \A u \in Tasks : tasks[u].pc = "idle"

\* a caller may call a public method whenever its own last call has ended:
\* no method waits for another one
MayCall(t) == tasks[t].pc = "idle"

\* the coroutine of t sends the getter request of its method with token
\* tok, while the request of the other caller is in flight or not
TaskSendsOwn(t, o, tok) ==
    [tasks EXCEPT ![t].pc = "ws_get", ![t].op = o, ![t].sent = tok,
                  ![t].pending = <<>>, ![t].result = "pending",
                  ![t].joined = tasks[Other(t)].pc = "ws_get",
                  ![Other(t)].joined = tasks[Other(t)].pc = "ws_get"]

\* the coroutine of t ends with result res
TaskEnds(t, res) ==
    [tasks EXCEPT ![t].pc = "idle", ![t].pending = <<>>, ![t].result = res]

TaskCall(t) ==
    /\ MayCall(t)
    /\ \E o \in ConcurrentOps :
          /\ tasks' = IF token = None
                      THEN [tasks EXCEPT ![t].pc = "login_get", ![t].op = o,
                                         ![t].sent = None,
                                         ![t].pending = <<>>,
                                         ![t].result = "pending"]
                      ELSE TaskSendsOwn(t, o, token)
          /\ cache' = IF token = None THEN cache ELSE Cleared(o, cache)
    /\ UNCHANGED <<token, ipv6_filters, ipv6_filters_time, pc, op, arg,
                   new_value, reqs, lastCookie, tokenAtCall, result, ret,
                   cacheAtCall, answer, given, applied, issued,
                   host, password, headers>>

\* the device answers the request of t, or the request times out
DeviceAnswers(t) ==
    /\ tasks[t].pc \in {"login_get", "login_post", "ws_get"}
    /\ tasks[t].pending = <<>>
    /\ \E r \in ConcurrentResponses :
          /\ tasks' = [tasks EXCEPT ![t].pending = <<r>>]
          /\ issued' = IF r.fail = "send" THEN issued ELSE r.cookies
    /\ UNCHANGED <<token, ipv6_filters, ipv6_filters_time, pc, op, arg,
                   new_value, reqs, lastCookie, tokenAtCall, result, ret,
                   cache, cacheAtCall, answer, given, applied,
                   host, password, headers>>

\* what the call of t that has just ended did to the token, both calls
\* having ended (ts and tok are the coroutines and the token after the
\* step): "overwritten" when both returned and the token is not the cookie
\* the device issued last, "cleared" when the request of t timed out and
\* the token it cleared was the cookie the device issued last, stored by
\* the other call
Lost(t, ts, tok) ==
    IF /\ ts[t].pc = "idle" /\ ts[Other(t)].pc = "idle"
       /\ ts[t].joined
       /\ ts[Other(t)].result = "ok"
       /\ ts[t].sent # None /\ ts[t].sent = ts[Other(t)].sent
       /\ issued # {}
    THEN IF ts[t].result = "ok" /\ tok # None /\ tok \notin issued
         THEN "overwritten"
         ELSE IF /\ ts[t].result = "ConnectBoxConnectionError"
                 /\ tasks[t].pc = "ws_get"
                 /\ issued = {token} /\ tok = None
         THEN "cleared"
         ELSE ts[t].lost
    ELSE ts[t].lost

\* the coroutine of t is resumed with the response to its request or, at
\* the await of response.text(), with the body of that response
TaskResumes(t) ==
    /\ tasks[t].pending # <<>>
    /\ LET r == tasks[t].pending[1]
           o == tasks[t].op
           page  == _async_initialize_valid_token(token, r)
           login == _async_do_login_with_password(token, r)
           \* the response as it arrives, before its body is read
           head  == _async_ws_get_function(
                        token,
                        IF r.fail = "read"
                        THEN [r EXCEPT !.fail = "none", !.exc = "none"]
                        ELSE r)
           get   == _async_ws_get_function(token, r)
           dec   == Decode(o, token, r.body)
           tok   == CASE tasks[t].pc = "login_get" -> page.token
                      [] tasks[t].pc = "login_post" -> login.token
                      [] tasks[t].pc = "ws_get" -> head.token
                      [] tasks[t].pc = "ws_get_text" ->
                            IF get.exc # "none" THEN get.token ELSE dec.token
           ts    == CASE tasks[t].pc = "login_get" ->
                            IF page.exc # "none" THEN TaskEnds(t, page.exc)
                            ELSE [tasks EXCEPT ![t].pc = "login_post",
                                               ![t].pending = <<>>]
                      [] tasks[t].pc = "login_post" ->
                            IF login.exc # "none" THEN TaskEnds(t, login.exc)
                            ELSE TaskSendsOwn(t, o, login.token)
                      [] tasks[t].pc = "ws_get" ->
                            IF head.exc # "none" THEN TaskEnds(t, head.exc)
                            ELSE [tasks EXCEPT ![t].pc = "ws_get_text"]
                      [] tasks[t].pc = "ws_get_text" ->
                            IF get.exc # "none" THEN TaskEnds(t, get.exc)
                            ELSE IF dec.exc # "none" THEN TaskEnds(t, dec.exc)
                            ELSE TaskEnds(t, "ok")
       IN  /\ token' = tok
           /\ tasks' = [ts EXCEPT ![t].lost = Lost(t, ts, tok)]
           /\ cache' = CASE tasks[t].pc = "login_post" /\ login.exc = "none" ->
                              Cleared(o, cache)
                         [] tasks[t].pc = "ws_get_text" ->
                              Stored(o, token, r, cache)
                         [] OTHER -> cache
    /\ UNCHANGED <<ipv6_filters, ipv6_filters_time, pc, op, arg,
                   new_value, reqs, lastCookie, tokenAtCall, result, ret,
                   cacheAtCall, answer, given, applied, issued,
                   host, password, headers>>

NextConcurrent ==
    \E t \in Tasks : TaskCall(t) \/ DeviceAnswers(t) \/ TaskResumes(t)

SpecConcurrent == Init /\ [][NextConcurrent]_vars

(***************************************************************************)
(* C18.  The client does not serialize overlapping calls, and calls that   *)
(* return lose the token only through an overlap: once the calls of both   *)
(* callers have returned, the token held differs from the cookie of the    *)
(* response the device issued last only when the two getter requests were  *)
(* in flight together.                                                     *)
(* (The interleavings the claim names are the witness.)                    *)
(***************************************************************************)
C18_LostOnlyByOverlap ==
    (/\ \A t \in Tasks : tasks[t].pc = "idle" /\ tasks[t].result = "ok"
     /\ token # None
     /\ issued # {}
     /\ token \notin issued)
    => \A t \in Tasks : tasks[t].joined

\* both interleavings of the claim have happened, each with both getter
\* requests in flight together carrying the same token: after one pair of
\* calls had returned, the token was the older cookie, stored by the
\* coroutine resumed last, and not the cookie the device issued last;
\* after another pair, the request of one call had timed out and cleared
\* the cookie the other call had just stored
C18_Witness ==
    /\ \A t \in Tasks : tasks[t].pc = "idle"
    /\ {tasks[t].lost : t \in Tasks} = {"overwritten", "cleared"}

(***************************************************************************)
(* C19.  No public method retries.  Within one invocation the login-page   *)
(* GET, the credentials POST, the getter request and the setter request    *)
(* are each sent at most once.  A coroutine resumed with a response either *)
(* ends (returns or raises) without sending anything, or waits for the     *)
(* body of that response without sending anything, or sends exactly one    *)
(* further request, and that only when the response was taken without an   *)
(* error, its cookie being stored as the token.  So nothing is sent after  *)
(* the first failure, and an invocation ends after four requests at most.  *)
(***************************************************************************)
\* the requests of the invocation that satisfy P, by position
Sent(P(_)) == {i \in DOMAIN reqs : P(reqs[i])}

IsGetterPost(rq) == rq.url = "/xml/getter.xml"

IsSetterPost(rq) == rq.url = "/xml/setter.xml" /\ ~IsLoginPost(rq)

EachRequestOnce ==
    /\ Cardinality(Sent(IsLoginPage)) <= 1
    /\ Cardinality(Sent(IsLoginPost)) <= 1
    /\ Cardinality(Sent(IsGetterPost)) <= 1
    /\ Cardinality(Sent(IsSetterPost)) <= 1

EndsOrSendsOne ==
    pc # "idle" =>
       \/ /\ pc' = "idle"
          /\ reqs' = reqs
          /\ result' # "pending"
       \/ /\ pc \in {"ws_get", "ws_set"}
          /\ pc' = IF pc = "ws_get" THEN "ws_get_text" ELSE "ws_set_text"
          /\ reqs' = reqs
          /\ result' = "pending"
          /\ lastCookie' = {token'}
       \/ /\ pc' \notin {"idle", "ws_get_text", "ws_set_text"}
          /\ Len(reqs') = Len(reqs) + 1
          /\ SubSeq(reqs', 1, Len(reqs)) = reqs
          /\ result' = "pending"
          /\ lastCookie' = {token'}

C19_NoRetry == [](EachRequestOnce) /\ [][EndsOrSendsOne]_vars

\* a getter called without a token: the credentials POST was refused, the
\* getter request was never sent and the login was not tried again
C19_Witness ==
    /\ Finished /\ result = "ConnectBoxLoginError"
    /\ op \in LoginGetters
    /\ Len(reqs) = 2
    /\ IsLoginPage(reqs[1]) /\ IsLoginPost(reqs[2])

(***************************************************************************)
(* C20.  Once a getter has sent its getter request, the cached fields of   *)
(* its kind hold only records of the response to that request: they are    *)
(* empty while the request is in flight and when no body arrives, every    *)
(* record they hold afterwards is one of that body, and after a successful *)
(* fetch they hold as many records as the body has.  Nothing of an earlier *)
(* fetch is left, whatever fetches came before.                            *)
(***************************************************************************)
\* record x of field f can have been read from the body
FromBody(f, x, body) ==
    CASE f = "devices" ->
            \E i \in DOMAIN body.records.MACAddr :
               /\ x.mac = body.records.MACAddr[i]
               /\ x.hostname = body.records.hostname[i]
               /\ x.lease_time = strptime(body.records.leaseTime[i])
      [] f \in {"ds_channels", "us_channels", "eventlog"} ->
            \E i \in DOMAIN body.records : x = body.records[i]
      [] f = "downstream_service_flows" ->
            \E i \in DOMAIN body.records :
               x = body.records[i] /\ x.direction = 1
      [] f = "upstream_service_flows" ->
            \E i \in DOMAIN body.records :
               x = body.records[i] /\ x.direction = 2
      [] OTHER -> x = body.head

\* the number of records of field f in the body
CountInBody(f, body) ==
    CASE f = "devices" -> Len(body.records.MACAddr)
      [] f \in {"ds_channels", "us_channels", "eventlog"} -> Len(body.records)
      [] f = "downstream_service_flows" ->
            Cardinality({i \in DOMAIN body.records :
                            body.records[i].direction = 1})
      [] f = "upstream_service_flows" ->
            Cardinality({i \in DOMAIN body.records :
                            body.records[i].direction = 2})
      [] OTHER -> 1

EmptyInFlight ==
    (pc \in {"ws_get", "ws_get_text"} /\ op \in CacheGetters) =>
       /\ \A f \in FieldsOf(op) : cache[f] = <<>>
       /\ op \in FilterGetters =>
             (ipv6_filters = <<>> /\ ipv6_filters_time = <<>>)

OnlyThisResponse ==
    (op \in CacheGetters /\ answer # <<>>) =>
       LET r == answer[1] IN
       /\ Finished
       /\ \A f \in FieldsOf(op) :
             /\ ~Answered(r) => cache[f] = <<>>
             /\ Answered(r) =>
                   \A i \in DOMAIN cache[f] : FromBody(f, cache[f][i], r.body)
             /\ result = "ok" => Len(cache[f]) = CountInBody(f, r.body)
       /\ op \in FilterGetters =>
             /\ ~Answered(r) =>
                   (ipv6_filters = <<>> /\ ipv6_filters_time = <<>>)
             /\ Answered(r) =>
                   /\ \A i \in DOMAIN ipv6_filters :
                         ipv6_filters[i] = r.body.instances[i]
                   /\ ipv6_filters_time \in
                         {<<>>, <<FiltersTimeMode(r.body.time)>>}
             /\ result = "ok" =>
                   /\ Len(ipv6_filters) = Len(r.body.instances)
                   /\ ipv6_filters_time # <<>>

C20_OnlyThisFetch == EmptyInFlight /\ OnlyThisResponse

\* an event log of two events of time 1 was replaced by one event of time 2
C20_Witness ==
    /\ Finished /\ result = "ok"
    /\ op = "async_get_eventlog"
    /\ cacheAtCall.eventlog = <<1, 1>>
    /\ cache.eventlog = <<2>>

(***************************************************************************)
(* C21.  The body of every POST starts with the token field, followed by   *)
(* the function-code field.  A getter request, the reboot and the logout   *)
(* have no further field; the credentials POST has Username and Password;  *)
(* the IPv6 filter update has each of its parameters once, in the order    *)
(* act, dir, enabled, allow_traffic, protocol, src_addr, src_prefix,       *)
(* dst_addr, dst_prefix, ssport, seport, dsport, deport, del, idd,         *)
(* sIpRange, dsIpRange, PortRange, TMode, TRule.                           *)
(***************************************************************************)
\* the names of the fields of a body, in order
Keys(rq) == [i \in DOMAIN rq.data |-> rq.data[i][1]]

FilterUpdateKeys ==
    <<"token", "fun", "act", "dir", "enabled", "allow_traffic", "protocol",
      "src_addr", "src_prefix", "dst_addr", "dst_prefix", "ssport", "seport",
      "dsport", "deport", "del", "idd", "sIpRange", "dsIpRange", "PortRange",
      "TMode", "TRule">>

C21_BodyOrder ==
    \A i \in DOMAIN reqs :
       reqs[i].method = "POST" =>
          /\ Len(reqs[i].data) >= 2
          /\ reqs[i].data[1][1] = "token"
          /\ reqs[i].data[2][1] = "fun"
          /\ IsGetterPost(reqs[i]) => Keys(reqs[i]) = <<"token", "fun">>
          /\ IsLoginPost(reqs[i]) =>
                Keys(reqs[i]) = <<"token", "fun", "Username", "Password">>
          /\ IsSetterPost(reqs[i]) =>
                IF reqs[i].data[2][2] = ToString(CMD_SET_IPV6_FILTER_RULE)
                THEN Keys(reqs[i]) = FilterUpdateKeys
                ELSE /\ Keys(reqs[i]) = <<"token", "fun">>
                     /\ reqs[i].data[2][2] \in
                           {ToString(CMD_REBOOT), ToString(CMD_LOGOUT)}

\* the update of a toggle is in flight, its body naming the filter 1
C21_Witness ==
    /\ pc = "ws_set"
    /\ op = "async_toggle_ipv6_filter"
    /\ IsFilterUpdate(reqs[Len(reqs)])
    /\ Len(reqs[Len(reqs)].data) = 22
    /\ reqs[Len(reqs)].data[17] = <<"idd", "1">>

(***************************************************************************)
(* SpecGeneral: _parse_general_time on a GeneralTime section whose text is *)
(* "HH:MM-HH:MM".  One end of the interval is any time of the day, the     *)
(* other one of four sample times.                                         *)
(***************************************************************************)
DayTimes == (0..23) \X (0..59)

SampleTimes == {<<0, 0>>, <<8, 15>>, <<17, 45>>, <<23, 59>>}

\* the section with the interval from start to end
GeneralSection(start, end) == << <<start, end>> >>

InitGeneral ==
    /\ Constructed
    /\ given \in {GeneralSection(s, e) : s \in DayTimes, e \in SampleTimes}
                 \cup {GeneralSection(s, e) : s \in SampleTimes, e \in DayTimes}
    /\ applied = <<>>

ParseGeneral ==
    /\ applied = <<>>
    /\ applied' = <<_parse_general_time(given)>>
    /\ UNCHANGED <<token, ipv6_filters, ipv6_filters_time, pc, op, arg,
                   new_value, reqs, lastCookie, tokenAtCall, result, ret,
                   cache, cacheAtCall, answer, given, tasks, issued,
                   host, password, headers>>

SpecGeneral == InitGeneral /\ [][ParseGeneral]_vars

\* hour*60 + minute of a time of the day
MinuteOfDay(t) == t[1] * 60 + t[2]

(***************************************************************************)
(* C22.  _parse_general_time turns "HH:MM-HH:MM" into the minute of the    *)
(* day of the start, a comma, and the minute of the day of the end, the    *)
(* minute of the day being hour*60+minute, for hours 0..23 and minutes     *)
(* 0..59; "08:15-17:45" gives "495,1065".                                  *)
(***************************************************************************)
C22_GeneralMinutes ==
    applied # <<>> =>
       /\ applied[1] = ToString(MinuteOfDay(given[1][1])) \o ","
                       \o ToString(MinuteOfDay(given[1][2]))
       /\ given = GeneralSection(<<8, 15>>, <<17, 45>>) =>
             applied[1] = "495,1065"

\* "23:59-08:15" was converted
C22_Witness ==
    /\ applied # <<>>
    /\ given = GeneralSection(<<23, 59>>, <<8, 15>>)
    /\ applied[1] = "1439,495"

(***************************************************************************)
(* C23.  After async_get_eventlog returned normally the stored event log   *)
(* holds the events of the response, each as often as the response has it, *)
(* in ascending order of evEpoch, whatever their order in the response.    *)
(***************************************************************************)
\* how often v occurs in q
Occurrences(q, v) == Cardinality({i \in DOMAIN q : q[i] = v})

Ascending(q) == \A i \in 1..(Len(q) - 1) : q[i] <= q[i + 1]

C23_EventlogSorted ==
    (/\ Finished /\ result = "ok"
     /\ op = "async_get_eventlog"
     /\ answer # <<>>)
    => LET events == answer[1].body.records
       IN  /\ Ascending(cache.eventlog)
           /\ Len(cache.eventlog) = Len(events)
           /\ \A v \in RecordValues :
                 Occurrences(cache.eventlog, v) = Occurrences(events, v)

\* the response had the event of time 2 before the event of time 1
C23_Witness ==
    /\ Finished /\ result = "ok"
    /\ op = "async_get_eventlog"
    /\ answer # <<>>
    /\ answer[1].body.records = <<2, 1>>
    /\ cache.eventlog = <<1, 2>>

(***************************************************************************)
(* C24.  After async_get_cmstatus_and_service_flows returned normally,     *)
(* every service flow of the response is in exactly one of the two lists:  *)
(* those of direction 1 in downstream_service_flows, those of direction 2  *)
(* in upstream_service_flows, each list in the order of the response.      *)
(***************************************************************************)
InSeq(q, x) == \E i \in DOMAIN q : q[i] = x

\* the position of x in q
Position(q, x) == CHOOSE i \in DOMAIN q : q[i] = x

InOrderOf(q, flows) ==
    \A j, k \in DOMAIN q :
       j < k => Position(flows, q[j]) < Position(flows, q[k])

C24_FlowsPartitioned ==
    (/\ Finished /\ result = "ok"
     /\ op = "async_get_cmstatus_and_service_flows"
     /\ answer # <<>>)
    => LET flows == answer[1].body.records
           down  == cache.downstream_service_flows
           up    == cache.upstream_service_flows
       IN  /\ \A j \in DOMAIN down :
                 down[j].direction = 1 /\ InSeq(flows, down[j])
           /\ \A j \in DOMAIN up :
                 up[j].direction = 2 /\ InSeq(flows, up[j])
           /\ \A i \in DOMAIN flows :
                 /\ InSeq(down, flows[i]) \/ InSeq(up, flows[i])
                 /\ ~(InSeq(down, flows[i]) /\ InSeq(up, flows[i]))
                 /\ flows[i].direction = 1 => InSeq(down, flows[i])
                 /\ flows[i].direction = 2 => InSeq(up, flows[i])
           /\ Len(down) + Len(up) = Len(flows)
           /\ InOrderOf(down, flows)
           /\ InOrderOf(up, flows)

\* an upstream flow followed by a downstream flow
C24_Witness ==
    /\ Finished /\ result = "ok"
    /\ op = "async_get_cmstatus_and_service_flows"
    /\ answer # <<>>
    /\ answer[1].body.records = FlowTexts(1, <<2, 1>>)
    /\ cache.downstream_service_flows = <<[id |-> 2, direction |-> 1]>>
    /\ cache.upstream_service_flows = <<[id |-> 1, direction |-> 2]>>

(***************************************************************************)
(* C25.  As claimed: a login-page GET that fails, at the request or at the *)
(* reading of the response, raises ConnectBoxConnectionError and the       *)
(* credentials POST is not sent; every response to the credentials POST    *)
(* with a status other than 200 raises ConnectBoxLoginError.               *)
(***************************************************************************)
C25_LoginErrorKindsAll ==
    [][/\ (pc = "login_get") =>
             (\A r \in Responses({OkBody}) :
                (r.fail # "none" /\ LoginPageResponseWith(r))
                => (/\ pc' = "idle"
                    /\ result' = "ConnectBoxConnectionError"
                    /\ reqs' = <<LoginPageRequest>>))
       /\ (pc = "login_post") =>
             (\A r \in Responses({OkBody}) :
                (r.fail # "send" /\ r.status # 200 /\ LoginResponseWith(r))
                => (/\ pc' = "idle"
                    /\ result' = "ConnectBoxLoginError"
                    /\ reqs' = reqs))]_vars

\* C25 as amended: the status of the response to the credentials POST is
\* tested after its body was read (line 534 before line 536), so a
\* response with a status other than 200 raises ConnectBoxLoginError when
\* its body was read, and ConnectBoxConnectionError when the reading fails
C25_LoginErrorKinds ==
    [][/\ (pc = "login_get") =>
             (\A r \in Responses({OkBody}) :
                (r.fail # "none" /\ LoginPageResponseWith(r))
                => (/\ pc' = "idle"
                    /\ result' = "ConnectBoxConnectionError"
                    /\ reqs' = <<LoginPageRequest>>))
       /\ (pc = "login_post") =>
             (\A r \in Responses({OkBody}) :
                (r.fail # "send" /\ r.status # 200 /\ LoginResponseWith(r))
                => (/\ pc' = "idle"
                    /\ result' = IF r.fail = "read"
                                 THEN "ConnectBoxConnectionError"
                                 ELSE "ConnectBoxLoginError"
                    /\ reqs' = reqs))]_vars

\* async_initialize_token was refused at the credentials POST, which had
\* carried the cookie "1" of the login page
C25_Witness ==
    /\ Finished /\ result = "ConnectBoxLoginError"
    /\ op = "async_initialize_token"
    /\ reqs = <<LoginPageRequest, LoginRequest(ToString(1))>>
    /\ token = None

(***************************************************************************)
(* C26.  A public method that does not return normally raises one of the   *)
(* library's four errors: ConnectBoxError, ConnectBoxConnectionError,      *)
(* ConnectBoxLoginError or ConnectBoxNoDataAvailable.  In particular a 200 *)
(* response without a sessionToken cookie, a missing tag and a value that  *)
(* is not a number raise nothing else.                                     *)
(***************************************************************************)
C26_OnlyLibraryErrors ==
    Finished => result \in LibraryErrors \cup {"ok"}

(***************************************************************************)
(* C27.  Under one-at-a-time use every POST (getter request, setter        *)
(* request, credentials POST) carries a token that is present, never       *)
(* token=None, and that token is the sessionToken cookie of the response   *)
(* the client received last.                                               *)
(***************************************************************************)
\* the value of the token field of the request in flight
TokenInFlight == reqs[Len(reqs)].data[1][2]

C27_TokenOfLastResponse ==
    pc \in {"login_post", "ws_get", "ws_set"} =>
       /\ TokenInFlight # Str(None)
       /\ lastCookie = {TokenInFlight}

(***************************************************************************)
(* SpecDaily: _parse_daily_time on up to MaxEntries DailyTime entries      *)
(* whose day is also 0 or 8 and whose hours are also 24, the start also    *)
(* after the end.  (A text "start-end" cannot hold a negative number: it   *)
(* is split at "-".)                                                       *)
(***************************************************************************)
WideDays == {0, 1, 8}

WideHours == {0, 23, 24}

WideEntries == [daily : WideDays, s : WideHours, e : WideHours]

\* the numbers whose decimal texts the function joins
DailyValues(entries) ==
    LET loop == DailyMask(entries, [d \in 1..7 |-> [h \in 1..24 |-> 0]])
    IN  [d \in 1..7 |-> DayDec(loop.mask[d], 0)]

InitDaily ==
    /\ Constructed
    /\ given \in SeqsUpTo(WideEntries, MaxEntries)
    /\ applied = <<>>

ParseDaily ==
    /\ applied = <<>>
    /\ applied' =
          IF _parse_daily_time(given).exc # "none"
          THEN <<[exc |-> _parse_daily_time(given).exc, text |-> None,
                  values |-> <<>>]>>
          ELSE <<[exc |-> "none", text |-> _parse_daily_time(given).value,
                  values |-> DailyValues(given)]>>
    /\ UNCHANGED <<token, ipv6_filters, ipv6_filters_time, pc, op, arg,
                   new_value, reqs, lastCookie, tokenAtCall, result, ret,
                   cache, cacheAtCall, answer, given, tasks, issued,
                   host, password, headers>>

SpecDaily == InitDaily /\ [][ParseDaily]_vars

(***************************************************************************)
(* C28.  For any list of entries, also with a day outside 1..7, an end     *)
(* hour above 23 or a start after the end, _parse_daily_time returns seven *)
(* decimal values, each in 0..2^24-1, and the value of a day that no entry *)
(* names is 0.                                                             *)
(***************************************************************************)
C28_SevenMasksInRange ==
    applied # <<>> =>
       /\ applied[1].exc = "none"
       /\ Len(applied[1].values) = 7
       /\ applied[1].text =
             Join([d \in 1..7 |-> ToString(applied[1].values[d])], ",")
       /\ \A d \in 1..7 :
             /\ applied[1].values[d] \in 0..(Pow2(24) - 1)
             /\ (\A i \in DOMAIN given : given[i].daily # d) =>
                   applied[1].values[d] = 0

(***************************************************************************)
(* C29.  async_close_session called while no token is held sends no        *)
(* request and changes nothing of the client; called while a token is held *)
(* it sends exactly one request, the logout (setter function 16) with that *)
(* token, and no login request.                                            *)
(***************************************************************************)
CloseSendsLogout ==
    op = "async_close_session" =>
       IF tokenAtCall = None
       THEN reqs = <<>> /\ pc = "idle"
       ELSE reqs = <<SetRequest(tokenAtCall, CMD_LOGOUT, <<>>)>>

CloseWithoutTokenChangesNothing ==
    (pc = "idle" /\ op' = "async_close_session" /\ token = None) =>
       /\ pc' = "idle"
       /\ UNCHANGED <<token, ipv6_filters, ipv6_filters_time, cache>>

C29_CloseSession ==
    [](CloseSendsLogout) /\ [][CloseWithoutTokenChangesNothing]_vars

(***************************************************************************)
(* SpecFrame: one caller uses every getter, the reboot and the logout on   *)
(* the same client in any order.  The device answers each getter with one  *)
(* document per kind of body, so that a field that was fetched is not      *)
(* empty.                                                                  *)
(***************************************************************************)
FrameBodies(o) ==
    IF o \in FilterGetters
    THEN [kind : BodyKinds(o), instances : {<<[idd |-> 1, enabled |-> 1]>>},
          time : {NoSchedule}, head : {0}, records : {<<>>}, at : {0}]
    ELSE IF o = "async_get_devices"
    THEN [kind : {"ok", "malformed"}, instances : {<<>>}, time : {NoSchedule},
          head : {0}, records : {DeviceTexts(1, 1)}, at : {0}]
         \cup
         [kind : DeviceFaults, instances : {<<>>}, time : {NoSchedule},
          head : {0}, records : {DeviceTexts(1, 1)}, at : {1}]
    ELSE IF o \in ListGetters
    THEN [kind : BodyKinds(o), instances : {<<>>}, time : {NoSchedule},
          head : {0}, records : {<<1>>}, at : {1}]
    ELSE IF o = "async_get_cmstatus_and_service_flows"
    THEN [kind : {"ok", "malformed"}, instances : {<<>>}, time : {NoSchedule},
          head : {1}, records : {FlowTexts(1, <<1, 2>>)}, at : {0}]
         \cup
         [kind : BodyKinds(o) \ {"ok", "malformed"}, instances : {<<>>},
          time : {NoSchedule}, head : {1},
          records : {FlowTexts(1, <<1, 2>>)}, at : {0, 2}]
    ELSE [kind : BodyKinds(o), instances : {<<>>}, time : {NoSchedule},
          head : {1}, records : {<<>>}, at : {0}]

FrameGetterCall ==
    /\ \E o \in CacheGetters :
          /\ Called(o, 0)
          /\ EnsureToken(o)
          /\ cache' = Reset(o, cache)
    /\ UNCHANGED aside

FrameGetterResponse ==
    /\ \E r \in SmallOwnResponses({OkBody}) : GetterResponseWith(r)
    /\ UNCHANGED aside

FrameGetterText ==
    /\ \E r \in SmallOwnResponses(FrameBodies(op)) : GetterTextWith(r)
    /\ UNCHANGED aside

FrameSetterResponse ==
    /\ \E r \in SmallOwnResponses({OkBody}) : SetterResponseWith(r)
    /\ UNCHANGED aside

FrameSetterText ==
    /\ \E r \in SmallOwnResponses({OkBody}) : SetterTextWith(r)
    /\ UNCHANGED aside

NextFrame ==
    \/ FrameGetterCall
    \/ async_reboot_device
    \/ async_close_session
    \/ CacheLoginPageResponse
    \/ CacheLoginResponse
    \/ FrameGetterResponse
    \/ FrameGetterText
    \/ FrameSetterResponse
    \/ FrameSetterText

SpecFrame == Init /\ [][NextFrame]_vars

(***************************************************************************)
(* C30.  Every step of a getter, whether the getter ends normally or with  *)
(* an error, leaves the cached fields of every other kind as they were:    *)
(* only the token and the fields of its own kind change (the filters and   *)
(* their schedule for async_get_ipv6_filtering).  Every step of the reboot *)
(* and of the logout leaves every cached field as it was.  No step changes *)
(* the host, the password or the headers.                                  *)
(***************************************************************************)
OthersKept ==
    /\ \A f \in (DOMAIN cache) \ FieldsOf(op') : cache'[f] = cache[f]
    /\ op' \notin FilterGetters =>
          UNCHANGED <<ipv6_filters, ipv6_filters_time>>
    /\ UNCHANGED <<host, password, headers>>

C30_Frame == [][OthersKept]_vars

\* async_get_temperature ended with an error and left its own field empty
\* while the devices, the event log, the service flows and the filters
\* fetched before it are still there
C30_Witness ==
    /\ pc = "idle"
    /\ op = "async_get_temperature"
    /\ result = "ConnectBoxNoDataAvailable"
    /\ cache.temperature = <<>>
    /\ cache.devices # <<>>
    /\ cache.eventlog = <<1>>
    /\ cache.cmstatus = <<1>>
    /\ Len(cache.downstream_service_flows) = 1
    /\ cache.global_settings = <<1>>
    /\ ipv6_filters = <<[idd |-> 1, enabled |-> 1]>>
    /\ host = "192.168.0.1" /\ password = Password
    /\ headers = Headers(host)

====
